---- MODULE Spec2Model ----
(***************************************************************************)
(* Model of the vim-style REPL of httpc (src/src/repl.rs): the request     *)
(* Buffer, the ResponseBuffer, the mode state machine of VimRepl, visual   *)
(* selection, request execution and the pane-split arithmetic.             *)
(*                                                                         *)
(* Conventions.                                                            *)
(*  - A Rust String is a sequence of characters; every character is a      *)
(*    one-character TLA+ string.  Byte offsets are what the code stores in *)
(*    cursor_col, so ByteLen and is_char_boundary are modelled: Wide is a  *)
(*    two-byte character.                                                  *)
(*  - Indices are 0-based as in the code; At(s, i) reads element i.        *)
(*  - A Buffer operation is an operator from a buffer record to a buffer   *)
(*    record.  The field trap reports how the operation ended: "ok",       *)
(*    "panic" (an index or char-boundary panic) or "overflow" (an unsigned *)
(*    subtraction below zero: a panic when overflow checks are compiled    *)
(*    in, a wrap-around otherwise; the other fields then hold the wrapped  *)
(*    outcome).  The stored buffers always have trap = "ok".               *)
(*  - pane_split_ratio is an f64 that only ever holds the double nearest   *)
(*    to a fraction of small integers; it is kept as the reduced fraction  *)
(*    <<n, d>> and the one rounding the code depends on is F64MulFloor.    *)
(*  - session_headers, a HashMap<String, String>, is the set of its        *)
(*    <<key, value>> entries.  dispatched is the ReplCommand that the      *)
(*    handler of the last key event passed to client.request, or None.     *)
(*  - terminal is where VimRepl::run stands (pc), whether raw mode was      *)
(*    enabled, which steps of the cleanup were attempted, and how the      *)
(*    event loop and run ended.                                            *)
(***************************************************************************)
EXTENDS Integers, Sequences, FiniteSets, TLC

VARIABLES mode, buffer, response_buffer, current_pane, verbose,
          terminal_height, status_message, command_buffer, clipboard,
          visual_selection, pending_g, pending_ctrl_w,
          last_response_status, pane_split_ratio, session_headers,
          dispatched, exited, panicked, wrapped, terminal

vars == <<mode, buffer, response_buffer, current_pane, verbose,
          terminal_height, status_message, command_buffer, clipboard,
          visual_selection, pending_g, pending_ctrl_w,
          last_response_status, pane_split_ratio, session_headers,
          dispatched, exited, panicked, wrapped, terminal>>

---------------------------------------------------------------------------
(* Bounds of the model.                                                    *)

\* Most lines the request buffer may hold (Enter and paste stop there) and
\* most bytes it may hold (typing, paste and the space that J adds stop
\* there), where the request is edited and where it is selected from.
EditMaxLines == 4

EditMaxText == 3

SelectMaxLines == 3

SelectMaxText == 2

\* The scroll offset from which no key scrolls further down (it caps the
\* offset where a wrapped subtraction lets it grow without end).
MaxScroll == 4

---------------------------------------------------------------------------
(* Characters and strings.                                                 *)

IsPrefix(p, q) == Len(p) <= Len(q) /\ SubSeq(q, 1, Len(p)) = p

\* Option<T>: None is the empty sequence and Some(x) the sequence <<x>>.
None == <<>>

Some(x) == <<x>>

Unwrap(o) == o[1]

\* A two-byte character (any non-ASCII letter typed at the keyboard).
Wide == "é"

Newline == "\n"

Width(c) == IF c = Wide THEN 2 ELSE 1

is_whitespace(c) == c \in {" ", Newline}

is_alphanumeric(c) == c \in {"a", "b", "g", "x", "G", "P", Wide}

Min(a, b) == IF a < b THEN a ELSE b

Max(a, b) == IF a > b THEN a ELSE b

At(s, i) == s[i + 1]

RECURSIVE ByteLen(_)
ByteLen(s) == IF s = <<>> THEN 0 ELSE Width(Head(s)) + ByteLen(Tail(s))

\* The byte offsets at which a character of s starts, and the end of s.
Boundaries(s) == {ByteLen(SubSeq(s, 1, k)) : k \in 0..Len(s)}

is_char_boundary(s, i) == i \in Boundaries(s)

\* Number of characters of s before byte offset i (i a boundary).
CharIndex(s, i) == CHOOSE k \in 0..Len(s) : ByteLen(SubSeq(s, 1, k)) = i

\* s[a..b] of the code; the code's slice panics unless SliceOk.
SliceOk(s, a, b) == a <= b /\ is_char_boundary(s, a) /\ is_char_boundary(s, b)

Slice(s, a, b) == SubSeq(s, CharIndex(s, a) + 1, CharIndex(s, b))

\* String::insert(idx, ch), for idx a char boundary.
str_insert(s, idx, ch) ==
    LET k == CharIndex(s, idx)
    IN SubSeq(s, 1, k) \o <<ch>> \o SubSeq(s, k + 1, Len(s))

\* String::remove(idx): panics unless idx is the start of a character.
RemoveOk(s, idx) == idx < ByteLen(s) /\ is_char_boundary(s, idx)

str_remove(s, idx) ==
    LET k == CharIndex(s, idx)
    IN SubSeq(s, 1, k) \o SubSeq(s, k + 2, Len(s))

\* Vec::remove(i) and Vec::insert(i, x), 0-based.
vec_remove(v, i) == SubSeq(v, 1, i) \o SubSeq(v, i + 2, Len(v))

vec_insert(v, i, x) == SubSeq(v, 1, i) \o <<x>> \o SubSeq(v, i + 1, Len(v))

RECURSIVE JoinLines(_)
JoinLines(v) ==
    IF v = <<>> THEN <<>>
    ELSE IF Len(v) = 1 THEN v[1]
    ELSE v[1] \o <<Newline>> \o JoinLines(Tail(v))

\* str::lines(): split at newlines; a final newline ends the last line and
\* does not start an empty one, so the empty string has no lines.
RECURSIVE SplitLines(_, _)
SplitLines(s, cur) ==
    IF s = <<>> THEN (IF cur = <<>> THEN <<>> ELSE <<cur>>)
    ELSE IF Head(s) = Newline THEN <<cur>> \o SplitLines(Tail(s), <<>>)
    ELSE SplitLines(Tail(s), Append(cur, Head(s)))

str_lines(s) == SplitLines(s, <<>>)

\* str::to_uppercase, on the ASCII letters and on Wide.
LowerCase ==
    <<"a", "b", "c", "d", "e", "f", "g", "h", "i", "j", "k", "l", "m",
      "n", "o", "p", "q", "r", "s", "t", "u", "v", "w", "x", "y", "z">>

UpperCase ==
    <<"A", "B", "C", "D", "E", "F", "G", "H", "I", "J", "K", "L", "M",
      "N", "O", "P", "Q", "R", "S", "T", "U", "V", "W", "X", "Y", "Z">>

char_to_uppercase(c) ==
    IF c = Wide THEN "É"
    ELSE IF \E i \in 1..Len(LowerCase) : LowerCase[i] = c
    THEN UpperCase[CHOOSE i \in 1..Len(LowerCase) : LowerCase[i] = c]
    ELSE c

to_uppercase(s) == [i \in 1..Len(s) |-> char_to_uppercase(s[i])]

\* str::splitn(n, ' '): at most n parts, cut at the first n - 1 spaces.
RECURSIVE Splitn(_, _, _)
Splitn(s, n, cur) ==
    IF s = <<>> THEN <<cur>>
    ELSE IF Head(s) = " " /\ n > 1
    THEN <<cur>> \o Splitn(Tail(s), n - 1, <<>>)
    ELSE Splitn(Tail(s), n, Append(cur, Head(s)))

splitn(s, n) == Splitn(s, n, <<>>)

starts_with(s, prefix) == IsPrefix(prefix, s)

\* HashMap<String, String> as the set of its entries.
hash_insert(map, key, value) ==
    {e \in map : e[1] # key} \cup {<<key, value>>}

hash_contains(map, key) == \E e \in map : e[1] = key

hash_remove(map, key) == {e \in map : e[1] # key}

---------------------------------------------------------------------------
(* Buffer (the request buffer).                                            *)

Panic(b) == [b EXCEPT !.trap = "panic"]

Overflow(b) == [b EXCEPT !.trap = "overflow"]

\* line_len of the code: lines.get(cursor_line).map_or(0, |l| l.len())
line_len_at(b, i) == IF i < Len(b.lines) THEN ByteLen(At(b.lines, i)) ELSE 0

Buffer_new ==
    [lines |-> << <<>> >>, cursor_line |-> 0, cursor_col |-> 0,
     scroll_offset |-> 0, trap |-> "ok"]

insert_char(b, ch) ==
    LET b1 == IF b.cursor_line >= Len(b.lines)
              THEN [b EXCEPT !.lines = Append(@, <<>>)] ELSE b
    IN IF b1.cursor_line >= Len(b1.lines) THEN Panic(b)
       ELSE LET line == At(b1.lines, b1.cursor_line)
            IN IF b1.cursor_col <= ByteLen(line)
               THEN IF ~is_char_boundary(line, b1.cursor_col) THEN Panic(b)
                    ELSE [b1 EXCEPT
                            !.lines[b1.cursor_line + 1] =
                                str_insert(line, b1.cursor_col, ch),
                            !.cursor_col = @ + 1]
               ELSE b1

\* delete_char without the test cursor_line > 0 of its second branch: at
\* the start of the first line it removes the line.
delete_char_unguarded(b) ==
    IF b.cursor_line >= Len(b.lines) THEN b
    ELSE LET line == At(b.lines, b.cursor_line)
         IN IF b.cursor_col > 0 /\ b.cursor_col <= ByteLen(line)
            THEN IF ~RemoveOk(line, b.cursor_col - 1) THEN Panic(b)
                 ELSE [b EXCEPT
                         !.lines[b.cursor_line + 1] =
                             str_remove(line, b.cursor_col - 1),
                         !.cursor_col = @ - 1]
            ELSE IF b.cursor_col = 0 /\ b.cursor_line = 0
            THEN [b EXCEPT !.lines = vec_remove(b.lines, 0)]
            ELSE IF b.cursor_col = 0
            THEN LET removed == vec_remove(b.lines, b.cursor_line)
                     prev == At(removed, b.cursor_line - 1)
                 IN [b EXCEPT
                       !.lines = [removed EXCEPT ![b.cursor_line] = prev \o line],
                       !.cursor_line = @ - 1,
                       !.cursor_col = ByteLen(prev)]
            ELSE b

delete_char(b) ==
    IF b.cursor_line >= Len(b.lines) THEN b
    ELSE LET line == At(b.lines, b.cursor_line)
         IN IF b.cursor_col > 0 /\ b.cursor_col <= ByteLen(line)
            THEN IF ~RemoveOk(line, b.cursor_col - 1) THEN Panic(b)
                 ELSE [b EXCEPT
                         !.lines[b.cursor_line + 1] =
                             str_remove(line, b.cursor_col - 1),
                         !.cursor_col = @ - 1]
            ELSE IF b.cursor_col = 0 /\ b.cursor_line > 0
            THEN LET removed == vec_remove(b.lines, b.cursor_line)
                     prev == At(removed, b.cursor_line - 1)
                 IN [b EXCEPT
                       !.lines = [removed EXCEPT ![b.cursor_line] = prev \o line],
                       !.cursor_line = @ - 1,
                       !.cursor_col = ByteLen(prev)]
            ELSE b

delete_char_at_cursor(b) ==
    IF b.cursor_line >= Len(b.lines) THEN b
    ELSE LET line == At(b.lines, b.cursor_line)
         IN IF b.cursor_col < ByteLen(line)
            THEN IF ~RemoveOk(line, b.cursor_col) THEN Panic(b)
                 ELSE [b EXCEPT !.lines[b.cursor_line + 1] =
                                    str_remove(line, b.cursor_col)]
            ELSE IF b.cursor_line + 1 < Len(b.lines)
            THEN LET next_line == At(b.lines, b.cursor_line + 1)
                     removed == vec_remove(b.lines, b.cursor_line + 1)
                 IN [b EXCEPT !.lines =
                        [removed EXCEPT ![b.cursor_line + 1] = line \o next_line]]
            ELSE b

new_line(b) ==
    LET b1 == IF b.cursor_line >= Len(b.lines)
              THEN [b EXCEPT !.lines = Append(@, <<>>)] ELSE b
    IN IF b1.cursor_line >= Len(b1.lines) THEN Panic(b)
       ELSE LET line == At(b1.lines, b1.cursor_line)
            IN \* split_off(at) panics when at > len or at is no char boundary
               IF ~is_char_boundary(line, b1.cursor_col) THEN Panic(b)
               ELSE LET k == CharIndex(line, b1.cursor_col)
                        kept == SubSeq(line, 1, k)
                        remainder == SubSeq(line, k + 1, Len(line))
                    IN [b1 EXCEPT
                          !.lines = vec_insert(
                              [b1.lines EXCEPT ![b1.cursor_line + 1] = kept],
                              b1.cursor_line + 1, remainder),
                          !.cursor_line = @ + 1,
                          !.cursor_col = 0]

new_line_with_scroll(b, visible_height) ==
    LET b1 == new_line(b)
    IN IF b1.trap # "ok" THEN b1
       ELSE IF b1.cursor_line >= b1.scroll_offset + visible_height
       THEN [b1 EXCEPT !.scroll_offset = b1.cursor_line - visible_height + 1]
       ELSE b1

move_cursor_up(b) ==
    IF b.cursor_line > 0
    THEN [b EXCEPT !.cursor_line = @ - 1,
                   !.cursor_col = Min(@, line_len_at(b, b.cursor_line - 1))]
    ELSE b

move_cursor_up_with_scroll(b) ==
    IF b.cursor_line > 0
    THEN LET b1 == [b EXCEPT
                      !.cursor_line = @ - 1,
                      !.cursor_col = Min(@, line_len_at(b, b.cursor_line - 1))]
         IN IF b1.cursor_line < b1.scroll_offset
            THEN [b1 EXCEPT !.scroll_offset = b1.cursor_line]
            ELSE b1
    ELSE b

\* lines.len() - 1 underflows on an empty vector; wrapped, it exceeds every
\* cursor_line, so the cursor moves.
move_cursor_down(b) ==
    IF Len(b.lines) = 0 \/ b.cursor_line < Len(b.lines) - 1
    THEN LET b1 == [b EXCEPT
                      !.cursor_line = @ + 1,
                      !.cursor_col = Min(@, line_len_at(b, b.cursor_line + 1))]
         IN IF Len(b.lines) = 0 THEN Overflow(b1) ELSE b1
    ELSE b

move_cursor_down_with_scroll(b, visible_height) ==
    IF Len(b.lines) = 0 \/ b.cursor_line < Len(b.lines) - 1
    THEN LET b1 == [b EXCEPT
                      !.cursor_line = @ + 1,
                      !.cursor_col = Min(@, line_len_at(b, b.cursor_line + 1))]
             b2 == IF b1.cursor_line >= b1.scroll_offset + visible_height
                   THEN [b1 EXCEPT !.scroll_offset =
                                       b1.cursor_line - visible_height + 1]
                   ELSE b1
         IN IF Len(b.lines) = 0 THEN Overflow(b2) ELSE b2
    ELSE b

move_cursor_left(b) ==
    IF b.cursor_col > 0 THEN [b EXCEPT !.cursor_col = @ - 1] ELSE b

move_cursor_right(b) ==
    IF b.cursor_line < Len(b.lines) /\ b.cursor_col < line_len_at(b, b.cursor_line)
    THEN [b EXCEPT !.cursor_col = @ + 1]
    ELSE b

ends_with_space(s) == s # <<>> /\ s[Len(s)] = " "

starts_with_space(s) == s # <<>> /\ s[1] = " "

join_with_next_line(b) ==
    IF b.cursor_line + 1 < Len(b.lines)
    THEN LET next_line == At(b.lines, b.cursor_line + 1)
             removed == vec_remove(b.lines, b.cursor_line + 1)
             current_line == At(removed, b.cursor_line)
             spaced == IF current_line # <<>> /\ ~ends_with_space(current_line)
                          /\ next_line # <<>> /\ ~starts_with_space(next_line)
                       THEN Append(current_line, " ") ELSE current_line
         IN [b EXCEPT !.lines =
                [removed EXCEPT ![b.cursor_line + 1] = spaced \o next_line]]
    ELSE b

move_cursor_to_line_start(b) == [b EXCEPT !.cursor_col = 0]

move_cursor_to_line_end(b) ==
    IF b.cursor_line < Len(b.lines)
    THEN [b EXCEPT !.cursor_col = line_len_at(b, b.cursor_line)]
    ELSE b

move_cursor_to_start(b) ==
    [b EXCEPT !.cursor_line = 0, !.cursor_col = 0, !.scroll_offset = 0]

move_cursor_to_end(b) ==
    IF Len(b.lines) # 0
    THEN [b EXCEPT !.cursor_line = Len(b.lines) - 1,
                   !.cursor_col = line_len_at(b, Len(b.lines) - 1)]
    ELSE b

move_cursor_to_end_with_scroll(b, visible_height) ==
    IF Len(b.lines) # 0
    THEN [b EXCEPT !.cursor_line = Len(b.lines) - 1,
                   !.cursor_col = line_len_at(b, Len(b.lines) - 1),
                   !.scroll_offset = IF Len(b.lines) > visible_height
                                     THEN Len(b.lines) - visible_height ELSE 0]
    ELSE b

scroll_half_page_up_with_cursor(b, half_page_size) ==
    LET scroll_amount == Min(half_page_size, b.scroll_offset)
        new_scroll == b.scroll_offset - scroll_amount
        target_line == IF b.cursor_line >= scroll_amount
                    THEN b.cursor_line - scroll_amount ELSE new_scroll
    IN [b EXCEPT !.scroll_offset = new_scroll,
                 !.cursor_line = target_line,
                 !.cursor_col = Min(@, line_len_at(b, target_line))]

max_scroll_of(b, visible_height) ==
    IF Len(b.lines) > visible_height THEN Len(b.lines) - visible_height ELSE 0

\* max_scroll - scroll_offset underflows when scroll_offset > max_scroll;
\* wrapped, the difference exceeds half_page_size, so the scroll amount is
\* half_page_size.
scroll_half_page_down_with_cursor(b, half_page_size, visible_height) ==
    LET max_scroll == max_scroll_of(b, visible_height)
        under == b.scroll_offset > max_scroll
        scroll_amount == IF under THEN half_page_size
                         ELSE Min(half_page_size, max_scroll - b.scroll_offset)
        new_cursor_line == b.cursor_line + scroll_amount
        target_line == IF new_cursor_line < Len(b.lines) THEN new_cursor_line
                    ELSE IF Len(b.lines) = 0 THEN 0 ELSE Len(b.lines) - 1
        b1 == [b EXCEPT !.scroll_offset = @ + scroll_amount,
                        !.cursor_line = target_line,
                        !.cursor_col = Min(@, line_len_at(b, target_line))]
    IN IF under THEN Overflow(b1) ELSE b1

\* The three character classes of the word motions.
CharClass(c) ==
    IF is_whitespace(c) THEN "space"
    ELSE IF is_alphanumeric(c) \/ c = "_" THEN "word"
    ELSE "punct"

\* The while loops of the word motions: the first index from pos on whose
\* character is not of class cls (chars.len() when there is none), and the
\* first index from pos down whose predecessor is not of class cls.
RECURSIVE SkipForward(_, _, _)
SkipForward(chars, pos, cls) ==
    IF pos < Len(chars) /\ CharClass(At(chars, pos)) = cls
    THEN SkipForward(chars, pos + 1, cls) ELSE pos

RECURSIVE SkipBackward(_, _, _)
SkipBackward(chars, pos, cls) ==
    IF pos > 0 /\ CharClass(At(chars, pos - 1)) = cls
    THEN SkipBackward(chars, pos - 1, cls) ELSE pos

\* while pos > 0 && chars[pos].is_whitespace() { pos -= 1 }
RECURSIVE SkipSpaceBackward(_, _)
SkipSpaceBackward(chars, pos) ==
    IF pos > 0 /\ is_whitespace(At(chars, pos))
    THEN SkipSpaceBackward(chars, pos - 1) ELSE pos

\* chars is indexed with cursor_col, a byte offset, as the code does.
RECURSIVE move_cursor_word_forward(_)
move_cursor_word_forward(b) ==
    IF b.cursor_line >= Len(b.lines) THEN b
    ELSE LET chars == At(b.lines, b.cursor_line)
             pos == b.cursor_col
         IN IF pos >= Len(chars)
            THEN IF b.cursor_line < Len(b.lines) - 1
                 THEN [b EXCEPT
                         !.cursor_line = @ + 1,
                         !.cursor_col = SkipForward(At(b.lines, b.cursor_line + 1),
                                                    0, "space")]
                 ELSE b
            ELSE LET stop == SkipForward(chars, pos, CharClass(At(chars, pos)))
                 IN IF stop < Len(chars) THEN [b EXCEPT !.cursor_col = stop]
                    ELSE IF b.cursor_line < Len(b.lines) - 1
                    THEN move_cursor_word_forward(
                             [b EXCEPT !.cursor_line = @ + 1, !.cursor_col = 0])
                    ELSE [b EXCEPT !.cursor_col = Len(chars)]

RECURSIVE move_cursor_word_backward(_)
move_cursor_word_backward(b) ==
    IF b.cursor_line >= Len(b.lines) THEN b
    ELSE LET chars == At(b.lines, b.cursor_line)
         IN IF b.cursor_col = 0
            THEN IF b.cursor_line > 0
                 THEN move_cursor_word_backward(
                          [b EXCEPT !.cursor_line = @ - 1,
                                    !.cursor_col = line_len_at(b, b.cursor_line - 1)])
                 ELSE b
            ELSE LET p0 == b.cursor_col - 1
                     onSpace == p0 < Len(chars) /\ is_whitespace(At(chars, p0))
                     p1 == IF onSpace THEN SkipSpaceBackward(chars, p0) ELSE p0
                 IN IF onSpace /\ p1 = 0 /\ is_whitespace(At(chars, 0))
                    THEN [b EXCEPT !.cursor_col = 0]
                    ELSE IF p1 < Len(chars) /\ ~is_whitespace(At(chars, p1))
                    THEN [b EXCEPT !.cursor_col =
                             SkipBackward(chars, p1, CharClass(At(chars, p1)))]
                    ELSE [b EXCEPT !.cursor_col = p1]

scroll_up(b) ==
    IF b.scroll_offset > 0 THEN [b EXCEPT !.scroll_offset = @ - 1] ELSE b

scroll_down(b, max_lines) ==
    IF b.scroll_offset + max_lines < Len(b.lines)
    THEN [b EXCEPT !.scroll_offset = @ + 1] ELSE b

scroll_half_page_up(b, half_page_size) ==
    [b EXCEPT !.scroll_offset = @ - Min(half_page_size, b.scroll_offset)]

scroll_half_page_down(b, half_page_size, max_lines) ==
    LET max_scroll == max_scroll_of(b, max_lines)
        under == b.scroll_offset > max_scroll
        scroll_amount == IF under THEN half_page_size
                         ELSE Min(half_page_size, max_scroll - b.scroll_offset)
        b1 == [b EXCEPT !.scroll_offset = @ + scroll_amount]
    IN IF under THEN Overflow(b1) ELSE b1

\* The text D removes (the code's return value), and the buffer after it.
delete_to_line_end_text(b) ==
    IF b.cursor_line >= Len(b.lines) THEN <<>>
    ELSE LET line == At(b.lines, b.cursor_line)
         IN IF b.cursor_col < ByteLen(line) /\ is_char_boundary(line, b.cursor_col)
            THEN SubSeq(line, CharIndex(line, b.cursor_col) + 1, Len(line))
            ELSE <<>>

delete_to_line_end(b) ==
    IF b.cursor_line >= Len(b.lines) THEN b
    ELSE LET line == At(b.lines, b.cursor_line)
         IN IF b.cursor_col < ByteLen(line)
            THEN IF ~is_char_boundary(line, b.cursor_col) THEN Panic(b)
                 ELSE [b EXCEPT !.lines[b.cursor_line + 1] =
                          SubSeq(line, 1, CharIndex(line, b.cursor_col))]
            ELSE b

get_text(b) == JoinLines(b.lines)

yank_line(b) ==
    IF b.cursor_line < Len(b.lines) THEN At(b.lines, b.cursor_line) ELSE <<>>

\* line[cursor_col..] panics when cursor_col is inside a character.
yank_to_line_end_ok(b) ==
    b.cursor_line < Len(b.lines) /\ b.cursor_col < line_len_at(b, b.cursor_line)
        => is_char_boundary(At(b.lines, b.cursor_line), b.cursor_col)

yank_to_line_end(b) ==
    IF b.cursor_line < Len(b.lines) /\ b.cursor_col < line_len_at(b, b.cursor_line)
    THEN LET line == At(b.lines, b.cursor_line)
         IN SubSeq(line, CharIndex(line, b.cursor_col) + 1, Len(line))
    ELSE <<>>

\* Vec::insert(index, ..) panics when index > len.
paste_line(b, text) ==
    IF b.cursor_line + 1 > Len(b.lines) THEN Panic(b)
    ELSE [b EXCEPT !.lines = vec_insert(@, b.cursor_line + 1, text),
                   !.cursor_line = @ + 1,
                   !.cursor_col = 0]

paste_line_above(b, text) ==
    IF b.cursor_line > Len(b.lines) THEN Panic(b)
    ELSE [b EXCEPT !.lines = vec_insert(@, b.cursor_line, text),
                   !.cursor_col = 0]

\* No key is bound to delete_line; Vec::remove and lines[0] panic when the
\* index is out of range.
delete_line(b) ==
    IF Len(b.lines) > 1
    THEN IF b.cursor_line >= Len(b.lines) THEN Panic(b)
         ELSE LET removed == vec_remove(b.lines, b.cursor_line)
              IN [b EXCEPT !.lines = removed,
                           !.cursor_line = IF @ >= Len(removed)
                                           THEN Len(removed) - 1 ELSE @,
                           !.cursor_col = 0]
    ELSE IF Len(b.lines) = 0 THEN Panic(b)
    ELSE [b EXCEPT !.lines[1] = <<>>, !.cursor_col = 0]

---------------------------------------------------------------------------
(* ResponseBuffer.  The record has the fields lines, scroll_offset,        *)
(* cursor_line and cursor_col of the struct (content is written once and   *)
(* never read), so the methods whose code equals Buffer's reuse Buffer's.  *)

\* The content kept as one line, not split at the newlines.
ResponseBuffer_unsplit(content) ==
    [lines |-> <<content>>, scroll_offset |-> 0,
     cursor_line |-> 0, cursor_col |-> 0, trap |-> "ok"]

ResponseBuffer_new(content) ==
    [lines |-> str_lines(content), scroll_offset |-> 0,
     cursor_line |-> 0, cursor_col |-> 0, trap |-> "ok"]

\* lines.len().saturating_sub(1)
last_index(r) == IF Len(r.lines) = 0 THEN 0 ELSE Len(r.lines) - 1

response_move_cursor_up(r) == move_cursor_up_with_scroll(r)

response_move_cursor_down(r) ==
    IF r.cursor_line < last_index(r)
    THEN [r EXCEPT !.cursor_line = @ + 1,
                   !.cursor_col = Min(@, line_len_at(r, r.cursor_line + 1))]
    ELSE r

response_move_cursor_down_with_scroll(r, visible_height) ==
    IF r.cursor_line < last_index(r)
    THEN LET r1 == [r EXCEPT
                      !.cursor_line = @ + 1,
                      !.cursor_col = Min(@, line_len_at(r, r.cursor_line + 1))]
         IN IF r1.cursor_line >= r1.scroll_offset + visible_height
            THEN [r1 EXCEPT !.scroll_offset = r1.cursor_line - visible_height + 1]
            ELSE r1
    ELSE r

\* for _ in 0..n { response.scroll_up() }  and  { response.scroll_down(m) }
RECURSIVE scroll_up_times(_, _)
scroll_up_times(r, n) == IF n = 0 THEN r ELSE scroll_up_times(scroll_up(r), n - 1)

RECURSIVE scroll_down_times(_, _, _)
scroll_down_times(r, n, max_lines) ==
    IF n = 0 THEN r ELSE scroll_down_times(scroll_down(r, max_lines), n - 1, max_lines)

---------------------------------------------------------------------------
(* Pane layout.                                                            *)

\* min_input_height / min_output_height of the resize functions.
MinPaneLines == 3

RECURSIVE Gcd(_, _)
Gcd(a, b) == IF b = 0 THEN a ELSE Gcd(b, a % b)

\* The f64 value n as f64 / d as f64, d > 0.
Ratio(n, d) == LET g == Gcd(n, d) IN <<n \div g, d \div g>>

RatioLess(r1, r2) == r1[1] * r2[2] < r2[1] * r1[2]

RatioMin(r1, r2) == IF RatioLess(r2, r1) THEN r2 ELSE r1

RatioMax(r1, r2) == IF RatioLess(r1, r2) THEN r2 ELSE r1

\* The triples <<t, n, d>>, t and d up to 48, for which the IEEE-754 double
\* product t * (n / d) lies just below the integer t*n/d, so that the cast
\* to usize yields one less than the exact quotient.  For every other
\* t, d <= 48 the cast of the double product equals the exact floor.
F64RoundsDown ==
    { <<22, 15, 22>>, <<23, 13, 23>>, <<26, 15, 26>>, <<39, 31, 39>>,
      <<43, 23, 43>>, <<43, 31, 43>>, <<44, 15, 22>>, <<44, 15, 44>>,
      <<45, 13, 45>>, <<45, 26, 45>>, <<46, 13, 23>>, <<46, 13, 46>>,
      <<47, 3, 47>>, <<47, 6, 47>>, <<47, 12, 47>>, <<47, 24, 47>>,
      <<47, 31, 47>> }

\* (t as f64 * ratio) as usize
F64MulFloor(t, ratio) ==
    LET exact == (t * ratio[1]) \div ratio[2]
    IN IF <<t, ratio[1], ratio[2]>> \in F64RoundsDown THEN exact - 1 ELSE exact

total_content_height(height) == height - 2

get_request_pane_height(height, ratio) ==
    F64MulFloor(total_content_height(height), ratio)

\* The response pane computed from its own share 1 - ratio.
get_response_pane_height_of_share(height, ratio) ==
    F64MulFloor(total_content_height(height), <<ratio[2] - ratio[1], ratio[2]>>)

get_response_pane_height(height, ratio) ==
    total_content_height(height) - get_request_pane_height(height, ratio)

\* Each resize function returns the new pane_split_ratio.
expand_input_pane(height, ratio) ==
    LET total == total_content_height(height)
        max_input_height == total - MinPaneLines
        current_input_height == get_request_pane_height(height, ratio)
    IN IF current_input_height < max_input_height
       THEN RatioMin(Ratio(Min(current_input_height + 1, max_input_height), total),
                     Ratio(max_input_height, total))
       ELSE ratio

expand_output_pane(height, ratio) ==
    LET total == total_content_height(height)
        max_output_height == total - MinPaneLines
        current_output_height == get_response_pane_height(height, ratio)
    IN IF current_output_height < max_output_height
       THEN RatioMax(Ratio(total - Min(current_output_height + 1, max_output_height),
                           total),
                     Ratio(MinPaneLines, total))
       ELSE ratio

shrink_input_pane(height, ratio) ==
    LET total == total_content_height(height)
        current_input_height == get_request_pane_height(height, ratio)
    IN IF current_input_height > MinPaneLines
       THEN RatioMax(Ratio(Max(current_input_height - 1, MinPaneLines), total),
                     Ratio(MinPaneLines, total))
       ELSE ratio

shrink_output_pane(height, ratio) ==
    LET total == total_content_height(height)
        current_output_height == get_response_pane_height(height, ratio)
    IN IF current_output_height > MinPaneLines
       THEN RatioMin(Ratio(total - Max(current_output_height - 1, MinPaneLines),
                           total),
                     Ratio(total - MinPaneLines, total))
       ELSE ratio

maximize_input_pane(height, ratio) ==
    LET total == total_content_height(height)
    IN Ratio(total - MinPaneLines, total)

maximize_output_pane(height, ratio) ==
    LET total == total_content_height(height)
    IN Ratio(MinPaneLines, total)

---------------------------------------------------------------------------
(* VimRepl.  A handler is an operator from the session record (the fields  *)
(* of VimRepl the model keeps) to the session record after the handler;    *)
(* the field trap is "ok", "panic" or "overflow" as for a buffer, and      *)
(* exit is the handler's Ok(true).                                         *)

\* Key events: [code, ch, ctrl, shift].
Ch(c) == [code |-> "Char", ch |-> c, ctrl |-> FALSE, shift |-> FALSE]

Ctrl(c) == [code |-> "Char", ch |-> c, ctrl |-> TRUE, shift |-> FALSE]

Shift(c) == [code |-> "Char", ch |-> c, ctrl |-> FALSE, shift |-> TRUE]

Special(code) == [code |-> code, ch |-> "", ctrl |-> FALSE, shift |-> FALSE]

IsChar(key, c) == key.code = "Char" /\ key.ch = c

\* execute!(io::stdout(), commands): the commands are written to the
\* terminal and the stream is flushed.
execute(commands) == <<[op |-> "write", what |-> commands], [op |-> "flush"]>>

Session ==
    [mode |-> mode, buffer |-> buffer, response_buffer |-> response_buffer,
     current_pane |-> current_pane, verbose |-> verbose,
     terminal_height |-> terminal_height, status_message |-> status_message,
     command_buffer |-> command_buffer, clipboard |-> clipboard,
     visual_selection |-> visual_selection, pending_g |-> pending_g,
     pending_ctrl_w |-> pending_ctrl_w,
     last_response_status |-> last_response_status,
     pane_split_ratio |-> pane_split_ratio,
     session_headers |-> session_headers, sent |-> None,
     written |-> <<>>, trap |-> "ok", exit |-> FALSE]

\* VimRepl::new; the terminal height and the verbose flag are its inputs.
VimRepl_new(height, verbose_flag) ==
    [mode |-> "Insert", buffer |-> Buffer_new, response_buffer |-> None,
     current_pane |-> "Request", verbose |-> verbose_flag,
     terminal_height |-> height, status_message |-> <<"-- INSERT --">>,
     command_buffer |-> <<>>, clipboard |-> <<>>,
     visual_selection |-> None, pending_g |-> FALSE,
     pending_ctrl_w |-> FALSE, last_response_status |-> None,
     pane_split_ratio |-> <<1, 2>>,
     session_headers |-> {}, sent |-> None,
     written |-> <<>>, trap |-> "ok", exit |-> FALSE]

\* The first trap of a handler decides how it ends; a panic ends it.
JoinTrap(t1, t2) == IF t1 = "panic" \/ t2 = "ok" THEN t1 ELSE t2

\* The session after a Buffer / ResponseBuffer method returned b.
WithBuffer(s, b) ==
    [s EXCEPT !.buffer = [b EXCEPT !.trap = "ok"],
              !.trap = JoinTrap(@, b.trap)]

WithResponse(s, r) ==
    [s EXCEPT !.response_buffer = Some([r EXCEPT !.trap = "ok"]),
              !.trap = JoinTrap(@, r.trap)]

ReqHeight(s) == get_request_pane_height(s.terminal_height, s.pane_split_ratio)

RespHeight(s) == get_response_pane_height(s.terminal_height, s.pane_split_ratio)

HasResponse(s) == s.response_buffer # None

\* Ctrl+U / Ctrl+D / Ctrl+F / Ctrl+B of Normal mode.
normal_ctrl_scroll(s, c) ==
    IF s.current_pane = "Request"
    THEN LET h == ReqHeight(s)
         IN WithBuffer(s,
              CASE c = "u" -> scroll_half_page_up_with_cursor(s.buffer, h \div 2)
                [] c = "d" -> scroll_half_page_down_with_cursor(s.buffer, h \div 2, h)
                [] c = "f" -> scroll_half_page_down_with_cursor(s.buffer, h, h)
                [] c = "b" -> scroll_half_page_up_with_cursor(s.buffer, h))
    ELSE IF HasResponse(s)
    THEN LET h == RespHeight(s)
             r == Unwrap(s.response_buffer)
         IN WithResponse(s,
              CASE c = "u" -> scroll_half_page_up_with_cursor(r, h \div 2)
                [] c = "d" -> scroll_half_page_down_with_cursor(r, h \div 2, h)
                [] c = "f" -> scroll_half_page_down_with_cursor(r, h, h)
                [] c = "b" -> scroll_half_page_up_with_cursor(r, h))
    ELSE s

\* Ctrl+K / Ctrl+J / Ctrl+M of Normal mode.
normal_ctrl_pane(s, c) ==
    IF ~HasResponse(s) THEN s
    ELSE LET h == s.terminal_height
             r == s.pane_split_ratio
             inReq == s.current_pane = "Request"
         IN [s EXCEPT !.pane_split_ratio =
               CASE c = "k" -> IF inReq THEN expand_input_pane(h, r)
                               ELSE shrink_output_pane(h, r)
                 [] c = "j" -> IF inReq THEN shrink_input_pane(h, r)
                               ELSE expand_output_pane(h, r)
                 [] c = "m" -> IF inReq THEN maximize_input_pane(h, r)
                               ELSE maximize_output_pane(h, r)]

\* i / I / A entering Insert mode whichever pane has focus.
normal_insert_any_pane(s, c) ==
    [s EXCEPT
       !.buffer = CASE c = "i" -> @
                    [] c = "I" -> move_cursor_to_line_start(@)
                    [] c = "A" -> move_cursor_to_line_end(@),
       !.mode = "Insert",
       !.status_message = <<"-- INSERT --">>,
       !.written = @ \o execute(<<"SetCursorStyle::BlinkingBar">>)]

\* i / I / A
normal_insert(s, c) ==
    IF s.current_pane = "Request"
    THEN [s EXCEPT
            !.buffer = CASE c = "i" -> @
                         [] c = "I" -> move_cursor_to_line_start(@)
                         [] c = "A" -> move_cursor_to_line_end(@),
            !.mode = "Insert",
            !.status_message = <<"-- INSERT --">>,
            !.written = @ \o execute(<<"SetCursorStyle::BlinkingBar">>)]
    ELSE s

\* U, Shift+D, PageUp, PageDown: scrolling that leaves the cursor alone.
normal_scroll(s, up, looped) ==
    IF s.current_pane = "Request"
    THEN LET h == ReqHeight(s)
         IN WithBuffer(s, IF up THEN scroll_half_page_up(s.buffer, h \div 2)
                          ELSE scroll_half_page_down(s.buffer, h \div 2, h))
    ELSE IF HasResponse(s)
    THEN LET h == RespHeight(s)
             r == Unwrap(s.response_buffer)
         IN WithResponse(s,
              IF up THEN (IF looped THEN scroll_up_times(r, h \div 2)
                          ELSE scroll_half_page_up(r, h \div 2))
              ELSE (IF looped THEN scroll_down_times(r, h \div 2, h)
                    ELSE scroll_half_page_down(r, h \div 2, h)))
    ELSE s

\* The motion keys b w 0 $ h j k l G of Normal mode, on either pane.
normal_motion(s, c) ==
    IF s.current_pane = "Request"
    THEN LET b == s.buffer
         IN WithBuffer(s,
              CASE c = "b" -> move_cursor_word_backward(b)
                [] c = "w" -> move_cursor_word_forward(b)
                [] c = "0" -> move_cursor_to_line_start(b)
                [] c = "$" -> move_cursor_to_line_end(b)
                [] c = "h" -> move_cursor_left(b)
                [] c = "j" -> move_cursor_down_with_scroll(b, ReqHeight(s))
                [] c = "k" -> move_cursor_up_with_scroll(b)
                [] c = "l" -> move_cursor_right(b)
                [] c = "G" -> move_cursor_to_end_with_scroll(b, ReqHeight(s)))
    ELSE IF HasResponse(s)
    THEN LET r == Unwrap(s.response_buffer)
         IN WithResponse(s,
              CASE c = "b" -> move_cursor_word_backward(r)
                [] c = "w" -> move_cursor_word_forward(r)
                [] c = "0" -> move_cursor_to_line_start(r)
                [] c = "$" -> move_cursor_to_line_end(r)
                [] c = "h" -> move_cursor_left(r)
                [] c = "j" -> response_move_cursor_down_with_scroll(r, RespHeight(s))
                [] c = "k" -> move_cursor_up_with_scroll(r)
                [] c = "l" -> move_cursor_right(r)
                [] c = "G" -> move_cursor_to_end_with_scroll(r, RespHeight(s)))
    ELSE s

\* g: the second g of gg moves to the start of the pane's buffer.
normal_g(s) ==
    IF s.current_pane = "Request"
    THEN IF s.pending_g
         THEN [WithBuffer(s, move_cursor_to_start(s.buffer)) EXCEPT !.pending_g = FALSE]
         ELSE [s EXCEPT !.pending_g = TRUE]
    ELSE IF HasResponse(s)
    THEN IF s.pending_g
         THEN [WithResponse(s, move_cursor_to_start(Unwrap(s.response_buffer)))
                 EXCEPT !.pending_g = FALSE]
         ELSE [s EXCEPT !.pending_g = TRUE]
    ELSE s

\* v / V: the selection starts at the cursor of the pane.
start_visual(s, linewise) ==
    LET cur == IF s.current_pane = "Request" THEN s.buffer
               ELSE Unwrap(s.response_buffer)
    IN IF s.current_pane = "Request" \/ HasResponse(s)
       THEN [s EXCEPT
               !.mode = IF linewise THEN "VisualLine" ELSE "Visual",
               !.visual_selection = Some(
                   [start_line |-> cur.cursor_line,
                    start_col |-> IF linewise THEN 0 ELSE cur.cursor_col,
                    end_line |-> cur.cursor_line,
                    end_col |-> IF linewise THEN line_len_at(cur, cur.cursor_line)
                                ELSE cur.cursor_col]),
               !.status_message = IF linewise THEN <<"-- VISUAL LINE --">>
                                  ELSE <<"-- VISUAL --">>]
       ELSE s

\* y / Y
normal_yank(s, c) ==
    IF s.current_pane = "Request"
    THEN IF c = "y" THEN [s EXCEPT !.clipboard = yank_line(s.buffer)]
         ELSE IF yank_to_line_end_ok(s.buffer)
         THEN [s EXCEPT !.clipboard = yank_to_line_end(s.buffer)]
         ELSE [s EXCEPT !.trap = "panic"]
    ELSE IF c = "y" /\ HasResponse(s)
            /\ Unwrap(s.response_buffer).scroll_offset
                   < Len(Unwrap(s.response_buffer).lines)
    THEN [s EXCEPT !.clipboard =
             At(Unwrap(s.response_buffer).lines,
                Unwrap(s.response_buffer).scroll_offset)]
    ELSE s

\* p / P pasting whichever pane has focus.
normal_paste_any_pane(s, c) ==
    IF s.clipboard # <<>>
    THEN WithBuffer(s, IF c = "p" THEN paste_line(s.buffer, s.clipboard)
                       ELSE paste_line_above(s.buffer, s.clipboard))
    ELSE s

\* p / P
normal_paste(s, c) ==
    IF s.current_pane = "Request" /\ s.clipboard # <<>>
    THEN WithBuffer(s, IF c = "p" THEN paste_line(s.buffer, s.clipboard)
                       ELSE paste_line_above(s.buffer, s.clipboard))
    ELSE s

\* D without the SHIFT modifier: delete to the end of the line.
normal_delete_to_end(s) ==
    IF s.current_pane = "Request"
    THEN LET deleted == delete_to_line_end_text(s.buffer)
             s1 == WithBuffer(s, delete_to_line_end(s.buffer))
         IN IF deleted # <<>> /\ s1.trap = "ok"
            THEN [s1 EXCEPT !.clipboard = deleted] ELSE s1
    ELSE s

\* The match on key.code that ends handle_normal_mode.
normal_key_code(s, key) ==
    IF key.code = "Char"
    THEN LET c == key.ch
         IN CASE c \in {"i", "I", "A"} -> normal_insert(s, c)
              [] c = ":" -> [s EXCEPT !.mode = "Command",
                                      !.command_buffer = <<>>,
                                      !.status_message = <<":">>]
              [] c = "J" -> IF s.current_pane = "Request"
                            THEN WithBuffer(s, join_with_next_line(s.buffer))
                            ELSE s
              [] c = "U" -> normal_scroll(s, TRUE, TRUE)
              [] c = "D" -> IF key.shift THEN normal_scroll(s, FALSE, TRUE)
                            ELSE normal_delete_to_end(s)
              [] c \in {"b", "w", "0", "$", "h", "j", "k", "l", "G"} ->
                     normal_motion(s, c)
              [] c = "g" -> normal_g(s)
              [] c = "v" -> start_visual(s, FALSE)
              [] c = "V" -> start_visual(s, TRUE)
              [] c \in {"y", "Y"} -> normal_yank(s, c)
              [] c \in {"p", "P"} -> normal_paste(s, c)
              [] c = "x" -> IF s.current_pane = "Request"
                            THEN WithBuffer(s, delete_char_at_cursor(s.buffer))
                            ELSE s
              [] OTHER -> s
    ELSE CASE key.code = "Left" -> normal_motion(s, "h")
           [] key.code = "Down" -> normal_motion(s, "j")
           [] key.code = "Up" -> normal_motion(s, "k")
           [] key.code = "Right" -> normal_motion(s, "l")
           [] key.code = "Delete" ->
                  IF s.current_pane = "Request"
                  THEN WithBuffer(s, delete_char_at_cursor(s.buffer))
                  ELSE s
           [] key.code = "Esc" -> [s EXCEPT !.status_message = <<>>]
           [] key.code = "PageUp" -> normal_scroll(s, TRUE, FALSE)
           [] key.code = "PageDown" -> normal_scroll(s, FALSE, FALSE)
           [] OTHER -> s

\* handle_normal_mode without the window commands: Ctrl+W is dropped and w
\* is always the word motion.
handle_normal_mode_without_windows(s, key) ==
    IF key.ctrl /\ IsChar(key, "w") THEN s ELSE normal_key_code(s, key)

\* handle_normal_mode that leaves the pending flags as they are on a key
\* that is neither g nor w.
handle_normal_mode_keeping_pending(s, key) ==
    IF key.ctrl /\ IsChar(key, "w") THEN [s EXCEPT !.pending_ctrl_w = TRUE]
    ELSE IF s.pending_ctrl_w /\ IsChar(key, "w")
    THEN [s EXCEPT !.current_pane = IF @ = "Request" THEN "Response"
                                    ELSE "Request",
                   !.pending_ctrl_w = FALSE]
    ELSE IF key.ctrl /\ key.code = "Char" /\ key.ch \in {"u", "d", "f", "b"}
    THEN normal_ctrl_scroll(s, key.ch)
    ELSE IF key.ctrl /\ key.code = "Char" /\ key.ch \in {"k", "j", "m"}
    THEN normal_ctrl_pane(s, key.ch)
    ELSE normal_key_code(s, key)

handle_normal_mode(s, key) ==
    LET isW == IsChar(key, "w")
        s1 == [s EXCEPT
                 !.pending_g = IF IsChar(key, "g") THEN @ ELSE FALSE,
                 !.pending_ctrl_w = IF isW /\ s.pending_ctrl_w THEN @ ELSE FALSE]
    IN IF key.ctrl /\ isW THEN [s1 EXCEPT !.pending_ctrl_w = TRUE]
       ELSE IF s1.pending_ctrl_w
       THEN IF isW
            THEN [s1 EXCEPT !.current_pane = IF @ = "Request" THEN "Response"
                                             ELSE "Request",
                            !.pending_ctrl_w = FALSE]
            ELSE IF key.code = "Esc" THEN [s1 EXCEPT !.pending_ctrl_w = FALSE]
            ELSE [s1 EXCEPT !.pending_ctrl_w = FALSE,
                            !.status_message = <<"Invalid window command">>]
       ELSE IF key.ctrl /\ key.code = "Char" /\ key.ch \in {"u", "d", "f", "b"}
       THEN normal_ctrl_scroll(s1, key.ch)
       ELSE IF key.ctrl /\ key.code = "Char" /\ key.ch \in {"k", "j", "m"}
       THEN normal_ctrl_pane(s1, key.ch)
       ELSE normal_key_code(s1, key)

\* str::split_whitespace and str::trim().is_empty()
RECURSIVE SplitTokens(_, _)
SplitTokens(s, cur) ==
    IF s = <<>> THEN (IF cur = <<>> THEN <<>> ELSE <<cur>>)
    ELSE IF is_whitespace(Head(s))
    THEN (IF cur = <<>> THEN <<>> ELSE <<cur>>) \o SplitTokens(Tail(s), <<>>)
    ELSE SplitTokens(Tail(s), Append(cur, Head(s)))

split_whitespace(s) == SplitTokens(s, <<>>)

is_blank(s) == \A i \in 1..Len(s) : is_whitespace(s[i])

\* What the dispatcher (client.request) answers: a response
\* [ok |-> TRUE, code, reason, headers_text, body, json] where code is
\* status.as_u16() and reason status.canonical_reason().unwrap_or("") as
\* printed, headers_text the lines the verbose block prints for
\* the headers, and json the pretty-printed JSON or None; or an error
\* [ok |-> FALSE, message].
response_text(s, resp) ==
    (IF s.verbose
     THEN <<"H", "e", "a", "d", "e", "r", "s", ":", Newline>>
          \o resp.headers_text \o <<Newline>>
     ELSE <<>>)
    \o (IF resp.json # None THEN Unwrap(resp.json) ELSE resp.body)

\* The split ratio left as the completed request found it.
restore_split_ratio_never(ratio) == ratio

restore_split_ratio(ratio) ==
    IF ~RatioLess(ratio, <<1, 1>>) THEN <<1, 2>> ELSE ratio

\* Url::parse of a token without ':', '/', '?', '#' and '@': the regex
\* takes the token as a relative path, which gets a leading slash, and
\* finds no endpoint and no query.
Url_parse(token) ==
    [endpoint |-> None,
     path |-> Some([path |-> <<"/">> \o token, query |-> None])]

\* The ReplCommand built from the lines of the buffer text.
ReplCommand(s, lines) ==
    LET parts == split_whitespace(lines[1])
        body_start_idx == IF Len(lines) > 1 /\ is_blank(lines[2]) THEN 2 ELSE 1
    IN [method |-> to_uppercase(parts[1]),
        url |-> Url_parse(parts[2]),
        body |-> IF Len(lines) > body_start_idx
                 THEN Some(JoinLines(SubSeq(lines, body_start_idx + 1, Len(lines))))
                 ELSE None,
        headers |-> s.session_headers]

\* The dispatcher's error returned to the caller with `?`, which ends the
\* event loop.
execute_request_propagating(s, resp) ==
    LET lines == str_lines(get_text(s.buffer))
    IN IF lines = <<>> \/ Len(split_whitespace(lines[1])) < 2 THEN s
       ELSE IF resp.ok
       THEN [s EXCEPT
               !.sent = Some(ReplCommand(s, lines)),
               !.last_response_status =
                   Some(<<"HTTP ", resp.code, " ", resp.reason>>),
               !.response_buffer = Some(ResponseBuffer_new(response_text(s, resp)))]
       ELSE [s EXCEPT !.sent = Some(ReplCommand(s, lines)), !.exit = TRUE]

\* A request that cannot be parsed reported like a failed dispatch.
execute_request_reporting(s, resp) ==
    LET lines == str_lines(get_text(s.buffer))
    IN IF lines = <<>> \/ Len(split_whitespace(lines[1])) < 2
       THEN [s EXCEPT !.last_response_status = Some(<<"Error">>),
                      !.status_message = <<"Invalid request">>]
       ELSE [s EXCEPT
               !.sent = Some(ReplCommand(s, lines)),
               !.last_response_status = Some(<<"Error">>),
               !.response_buffer = Some(ResponseBuffer_new(resp.message))]

execute_request(s, resp) ==
    LET lines == str_lines(get_text(s.buffer))
    IN IF lines = <<>> \/ is_blank(lines[1])
       THEN [s EXCEPT !.status_message = <<"No request to execute">>]
       ELSE IF Len(split_whitespace(lines[1])) < 2
       THEN [s EXCEPT !.status_message =
                          <<"Invalid request format. Use: METHOD URL">>]
       ELSE IF resp.ok
       THEN [s EXCEPT
               !.sent = Some(ReplCommand(s, lines)),
               !.last_response_status =
                   Some(<<"HTTP ", resp.code, " ", resp.reason>>),
               !.response_buffer = Some(ResponseBuffer_new(response_text(s, resp))),
               !.pane_split_ratio = restore_split_ratio(@)]
       ELSE [s EXCEPT
               !.sent = Some(ReplCommand(s, lines)),
               !.last_response_status = Some(<<"Error">>),
               !.status_message = <<"Request failed: ", resp.message>>,
               !.response_buffer =
                   Some(ResponseBuffer_new(<<"E", "r", "r", "o", "r", ":", " ">>
                                           \o resp.message)),
               !.pane_split_ratio = restore_split_ratio(@)]

handle_insert_mode(s, key, resp) ==
    LET b == s.buffer
        h == ReqHeight(s)
        inReq == s.current_pane = "Request"
    IN CASE key.code = "Esc" ->
              [s EXCEPT !.mode = "Normal", !.status_message = <<>>,
                        !.written =
                            @ \o execute(<<"SetCursorStyle::BlinkingBlock">>)]
         [] key.code = "Enter" -> WithBuffer(s, new_line_with_scroll(b, h))
         [] key.code = "Char" /\ key.ctrl ->
              CASE key.ch = "m" ->
                     IF inReq /\ HasResponse(s)
                     THEN [s EXCEPT !.pane_split_ratio =
                              maximize_input_pane(s.terminal_height, @)]
                     ELSE s
                [] key.ch = "j" ->
                     IF inReq
                     THEN IF HasResponse(s)
                          THEN [s EXCEPT !.pane_split_ratio =
                                   shrink_input_pane(s.terminal_height, @)]
                          ELSE execute_request(s, resp)
                     ELSE s
                [] key.ch = "d" ->
                     IF inReq
                     THEN WithBuffer(s, scroll_half_page_down(b, h \div 2, h))
                     ELSE s
                [] key.ch = "u" ->
                     IF inReq THEN WithBuffer(s, scroll_half_page_up(b, h \div 2))
                     ELSE s
                [] key.ch = "k" ->
                     IF inReq /\ HasResponse(s)
                     THEN [s EXCEPT !.pane_split_ratio =
                              expand_input_pane(s.terminal_height, @)]
                     ELSE s
                [] OTHER -> WithBuffer(s, insert_char(b, key.ch))
         [] key.code = "Char" -> WithBuffer(s, insert_char(b, key.ch))
         [] key.code = "Backspace" -> WithBuffer(s, delete_char(b))
         [] key.code = "Delete" -> WithBuffer(s, delete_char_at_cursor(b))
         [] key.code = "Left" -> WithBuffer(s, move_cursor_left(b))
         [] key.code = "Right" -> WithBuffer(s, move_cursor_right(b))
         [] key.code = "Up" -> WithBuffer(s, move_cursor_up_with_scroll(b))
         [] key.code = "Down" -> WithBuffer(s, move_cursor_down_with_scroll(b, h))
         [] key.code = "PageUp" ->
              IF inReq THEN WithBuffer(s, scroll_half_page_up(b, h \div 2)) ELSE s
         [] key.code = "PageDown" ->
              IF inReq THEN WithBuffer(s, scroll_half_page_down(b, h \div 2, h))
              ELSE s
         [] OTHER -> s

\* q! and quit! taken as q and quit: the pane with focus decides.
execute_command_quit_by_focus(s, resp) ==
    IF s.command_buffer \in {<<"q">>, <<"q", "u", "i", "t">>, <<"q", "!">>,
                             <<"q", "u", "i", "t", "!">>}
    THEN IF s.current_pane = "Response"
         THEN [s EXCEPT !.response_buffer = None,
                        !.current_pane = "Request",
                        !.pane_split_ratio = <<1, 1>>]
         ELSE [s EXCEPT !.exit = TRUE]
    ELSE s

execute_command(s, resp) ==
    LET cmd == s.command_buffer
    IN CASE cmd \in {<<"q">>, <<"q", "u", "i", "t">>} ->
              IF s.current_pane = "Response"
              THEN [s EXCEPT !.response_buffer = None,
                             !.current_pane = "Request",
                             !.pane_split_ratio = <<1, 1>>]
              ELSE [s EXCEPT !.exit = TRUE]
         [] cmd \in {<<"q", "!">>, <<"q", "u", "i", "t", "!">>} ->
              [s EXCEPT !.exit = TRUE]
         [] cmd \in {<<"x">>, <<"e", "x", "e", "c", "u", "t", "e">>} ->
              execute_request([s EXCEPT !.response_buffer = None], resp)
         [] cmd = <<"c", "l", "e", "a", "r">> ->
              [s EXCEPT !.response_buffer = None,
                        !.status_message = <<"Response cleared">>]
         [] cmd = <<"v", "e", "r", "b", "o", "s", "e">> ->
              [s EXCEPT !.verbose = ~@]
         [] starts_with(cmd, <<"h", "e", "a", "d", " ">>) ->
              LET parts == splitn(cmd, 3)
              IN IF Len(parts) >= 3
                 THEN [s EXCEPT
                         !.session_headers = hash_insert(@, parts[2], parts[3]),
                         !.status_message =
                             <<"Header set: ">> \o parts[2] \o <<" = ">>
                                 \o parts[3]]
                 ELSE s
         [] starts_with(cmd, <<"u", "n", "h", "e", "a", "d", " ">>) ->
              LET key == splitn(cmd, 2)[2]
              IN IF hash_contains(s.session_headers, key)
                 THEN [s EXCEPT
                         !.session_headers = hash_remove(@, key),
                         !.status_message = <<"Header removed: ">> \o key]
                 ELSE [s EXCEPT
                         !.status_message = <<"Header not found: ">> \o key]
         [] OTHER ->
              [s EXCEPT !.status_message = <<"Unknown command: ">> \o cmd]

handle_command_mode(s, key, resp) ==
    CASE key.code = "Esc" ->
           [s EXCEPT !.mode = "Normal", !.status_message = <<>>,
                     !.command_buffer = <<>>]
      [] key.code = "Char" ->
           [s EXCEPT !.command_buffer = Append(@, key.ch),
                     !.status_message = <<":">> \o Append(s.command_buffer, key.ch)]
      [] key.code = "Backspace" ->
           LET popped == IF s.command_buffer = <<>> THEN <<>>
                         ELSE SubSeq(s.command_buffer, 1, Len(s.command_buffer) - 1)
           IN [s EXCEPT !.command_buffer = popped,
                        !.status_message = <<":">> \o popped]
      [] key.code = "Enter" ->
           [execute_command(s, resp) EXCEPT
               !.mode = "Normal", !.command_buffer = <<>>,
               !.status_message = <<>>]
      [] OTHER -> s

\* The normalisation get_selected_text, delete_selected_text and
\* is_position_selected share: lines by min / max, and each column taken
\* from the end of the selection that lies on that line.
norm_start_line(sel) == Min(sel.start_line, sel.end_line)

norm_end_line(sel) == Max(sel.start_line, sel.end_line)

norm_start_col(sel) ==
    IF sel.start_line = norm_start_line(sel) THEN sel.start_col ELSE sel.end_col

norm_end_col(sel) ==
    IF sel.end_line = norm_end_line(sel) THEN sel.end_col ELSE sel.start_col

\* The lines get_selected_text reads: those of the pane with focus (with no
\* response it returns the empty string, as it does for no line at all).
pane_lines(s) ==
    IF s.current_pane = "Request" THEN s.buffer.lines
    ELSE IF HasResponse(s) THEN Unwrap(s.response_buffer).lines
    ELSE <<>>

\* Whether every slice get_selected_text takes is in range and on char
\* boundaries (otherwise it panics).
get_selected_text_ok(s, sel) ==
    LET lines == pane_lines(s)
        sl == norm_start_line(sel)
        el == norm_end_line(sel)
        sc == norm_start_col(sel)
        ec == norm_end_col(sel)
    IN IF sl = el
       THEN sl < Len(lines) =>
              LET line == At(lines, sl)
              IN SliceOk(line, Min(sc, ec), Min(Max(sc, ec), ByteLen(line)))
       ELSE \A i \in sl..el :
              i < Len(lines) =>
                LET line == At(lines, i)
                IN /\ i = sl => SliceOk(line, sc, ByteLen(line))
                   /\ (i # sl /\ i = el) => SliceOk(line, 0, Min(ec, ByteLen(line)))

RECURSIVE selected_rows(_, _, _, _, _, _)
selected_rows(lines, i, sl, el, sc, ec) ==
    IF i > el \/ i >= Len(lines) THEN <<>>
    ELSE LET line == At(lines, i)
             part == IF i = sl THEN Slice(line, sc, ByteLen(line))
                     ELSE IF i = el THEN Slice(line, 0, Min(ec, ByteLen(line)))
                     ELSE line
         IN part \o (IF i < el THEN <<Newline>> ELSE <<>>)
                 \o selected_rows(lines, i + 1, sl, el, sc, ec)

get_selected_text(s, sel) ==
    LET lines == pane_lines(s)
        sl == norm_start_line(sel)
        el == norm_end_line(sel)
        sc == norm_start_col(sel)
        ec == norm_end_col(sel)
    IN IF sl = el
       THEN IF sl < Len(lines)
            THEN LET line == At(lines, sl)
                 IN Slice(line, Min(sc, ec), Min(Max(sc, ec), ByteLen(line)))
            ELSE <<>>
       ELSE selected_rows(lines, sl, sl, el, sc, ec)

\* for _ in start_line + 1..=end_line { if start_line + 1 < len { remove } }
RECURSIVE remove_following(_, _, _)
remove_following(lines, at, n) ==
    IF n = 0 THEN lines
    ELSE remove_following(IF at < Len(lines) THEN vec_remove(lines, at) ELSE lines,
                          at, n - 1)

\* The request buffer after delete_selected_text (its text is
\* get_selected_text, taken first).
delete_selected_text(s, sel) ==
    LET b == s.buffer
        sl == norm_start_line(sel)
        el == norm_end_line(sel)
        sc == norm_start_col(sel)
        ec == norm_end_col(sel)
    IN IF ~get_selected_text_ok(s, sel) THEN Panic(b)
       ELSE IF sl = el
       THEN IF sl < Len(b.lines)
            THEN LET line == At(b.lines, sl)
                     from == Min(sc, ec)
                     to == Min(Max(sc, ec), ByteLen(line))
                 IN IF ~SliceOk(line, from, to) THEN Panic(b)
                    ELSE [b EXCEPT
                            !.lines[sl + 1] =
                                Slice(line, 0, from) \o Slice(line, to, ByteLen(line)),
                            !.cursor_col = from]
            ELSE b
       ELSE LET first == IF sl < Len(b.lines) THEN At(b.lines, sl) ELSE <<>>
                cutOk == sc <= ByteLen(first) => is_char_boundary(first, sc)
                kept == IF sc <= ByteLen(first) /\ cutOk
                        THEN Slice(first, 0, sc) ELSE first
                last == IF el < Len(b.lines) THEN At(b.lines, el) ELSE <<>>
                tailFrom == Min(ec, ByteLen(last))
                tailOk == is_char_boundary(last, tailFrom)
                remainder == IF el < Len(b.lines) /\ tailOk
                             THEN Slice(last, tailFrom, ByteLen(last)) ELSE <<>>
                joined == IF sl < Len(b.lines)
                          THEN [b.lines EXCEPT ![sl + 1] = kept \o remainder]
                          ELSE b.lines
            IN IF ~cutOk \/ ~tailOk THEN Panic(b)
               ELSE [b EXCEPT
                       !.lines = remove_following(joined, sl + 1, el - sl),
                       !.cursor_line = sl,
                       !.cursor_col = sc]

update_visual_selection(s) ==
    IF s.visual_selection = None THEN s
    ELSE IF s.current_pane = "Request" \/ HasResponse(s)
    THEN LET cur == IF s.current_pane = "Request" THEN s.buffer
                    ELSE Unwrap(s.response_buffer)
         IN [s EXCEPT
               !.visual_selection = Some(
                   [Unwrap(@) EXCEPT
                      !.end_line = cur.cursor_line,
                      !.end_col = IF s.mode = "VisualLine"
                                  THEN line_len_at(cur, cur.cursor_line)
                                  ELSE cur.cursor_col])]
    ELSE s

\* The motion keys h j k l w b 0 $ G of the visual modes.
visual_motion(s, c) ==
    LET moved ==
          IF s.current_pane = "Request"
          THEN LET b == s.buffer
               IN WithBuffer(s,
                    CASE c = "h" -> move_cursor_left(b)
                      [] c = "j" -> move_cursor_down_with_scroll(b, ReqHeight(s))
                      [] c = "k" -> move_cursor_up_with_scroll(b)
                      [] c = "l" -> move_cursor_right(b)
                      [] c = "w" -> move_cursor_word_forward(b)
                      [] c = "b" -> move_cursor_word_backward(b)
                      [] c = "0" -> move_cursor_to_line_start(b)
                      [] c = "$" -> move_cursor_to_line_end(b)
                      [] c = "G" -> move_cursor_to_end(b))
          ELSE IF HasResponse(s)
          THEN LET r == Unwrap(s.response_buffer)
               IN WithResponse(s,
                    CASE c = "h" -> move_cursor_left(r)
                      [] c = "j" -> response_move_cursor_down(r)
                      [] c = "k" -> response_move_cursor_up(r)
                      [] c = "l" -> move_cursor_right(r)
                      [] c = "w" -> move_cursor_word_forward(r)
                      [] c = "b" -> move_cursor_word_backward(r)
                      [] c = "0" -> move_cursor_to_line_start(r)
                      [] c = "$" -> move_cursor_to_line_end(r)
                      [] c = "G" -> move_cursor_to_end(r))
          ELSE s
    IN update_visual_selection(moved)

\* V inside a visual mode: toggles between Visual and VisualLine.
visual_toggle_line(s) ==
    LET cur == IF s.current_pane = "Request" THEN s.buffer
               ELSE Unwrap(s.response_buffer)
        known == s.current_pane = "Request" \/ HasResponse(s)
        sel == Unwrap(s.visual_selection)
        none == s.visual_selection = None
    IN IF s.mode = "Visual"
       THEN [s EXCEPT
               !.mode = "VisualLine",
               !.status_message = <<"-- VISUAL LINE --">>,
               !.visual_selection =
                   IF none THEN None
                   ELSE Some([sel EXCEPT
                                !.start_col = 0,
                                !.end_col = IF known
                                            THEN line_len_at(cur, cur.cursor_line)
                                            ELSE @])]
       ELSE [s EXCEPT
               !.mode = "Visual",
               !.status_message = <<"-- VISUAL --">>,
               !.visual_selection =
                   IF none THEN None
                   ELSE Some([sel EXCEPT
                                !.end_col = IF known THEN cur.cursor_col ELSE @])]

\* Esc of a visual mode that drops the selection and keeps the mode.
leave_visual_keeping_mode(s) ==
    [s EXCEPT !.status_message = <<>>, !.visual_selection = None]

\* Esc, v, y, d of a visual mode that keep the selection.
leave_visual_keeping_selection(s) ==
    [s EXCEPT !.mode = "Normal", !.status_message = <<>>]

leave_visual(s) ==
    [s EXCEPT !.mode = "Normal", !.status_message = <<>>,
              !.visual_selection = None]

handle_visual_mode(s, key) ==
    LET c == IF key.code = "Char" THEN key.ch
             ELSE CASE key.code = "Left" -> "h"
                    [] key.code = "Down" -> "j"
                    [] key.code = "Up" -> "k"
                    [] key.code = "Right" -> "l"
                    [] OTHER -> ""
        some == s.visual_selection # None
        sel == Unwrap(s.visual_selection)
    IN CASE key.code = "Esc" -> leave_visual(s)
         [] key.code = "Char" /\ c = "v" -> leave_visual(s)
         [] key.code = "Char" /\ c = "V" -> visual_toggle_line(s)
         [] key.code = "Char" /\ c = "y" ->
              IF some /\ ~get_selected_text_ok(s, sel)
              THEN [s EXCEPT !.trap = "panic"]
              ELSE leave_visual(
                     IF some
                     THEN [s EXCEPT !.clipboard = get_selected_text(s, sel)]
                     ELSE s)
         [] key.code = "Char" /\ c = "d" ->
              IF s.current_pane = "Request" /\ some
              THEN LET b == delete_selected_text(s, sel)
                   IN IF b.trap # "ok" THEN [s EXCEPT !.trap = b.trap]
                      ELSE leave_visual(
                             [WithBuffer(s, b) EXCEPT
                                !.clipboard = get_selected_text(s, sel)])
              ELSE leave_visual(s)
         [] c \in {"h", "j", "k", "l"} -> visual_motion(s, c)
         [] key.code = "Char" /\ c \in {"w", "b", "0", "$", "G"} ->
              visual_motion(s, c)
         [] OTHER -> s

\* Neither handle_visual_mode nor its callees look at key.modifiers.
\* render_status_line_to_buffer: the text left and right of the padding
\* of the status line (the padding and the cut at the terminal width are
\* left out); the duration is printed as "n" milliseconds.
render_status_line(s) ==
    [left |-> IF s.mode = "Command" THEN <<":">> \o s.command_buffer ELSE <<>>,
     right |-> IF s.last_response_status # None
               THEN Unwrap(s.last_response_status) \o <<" (", "n", "ms)">>
               ELSE <<>>]

handle_key_event(s, key, resp) ==
    CASE s.mode = "Normal" -> handle_normal_mode(s, key)
      [] s.mode = "Insert" -> handle_insert_mode(s, key, resp)
      [] s.mode = "Command" -> handle_command_mode(s, key, resp)
      [] s.mode \in {"Visual", "VisualLine"} -> handle_visual_mode(s, key)

\* The scroll offset of the response, as event_loop captures it.
response_scroll(s) ==
    IF s.response_buffer = None THEN None
    ELSE Some(Unwrap(s.response_buffer).scroll_offset)

\* The rendering decision of event_loop for a key event that took the
\* session from old to new: needs_full_render, then needs_content_update,
\* then the cursor-only render.
needs_full_render(old, new, key) ==
    \/ new.mode # old.mode
    \/ new.current_pane # old.current_pane
    \/ new.mode \in {"Command", "Visual", "VisualLine"}
    \/ new.buffer.scroll_offset # old.buffer.scroll_offset
    \/ response_scroll(new) # response_scroll(old)
    \/ new.pane_split_ratio # old.pane_split_ratio
    \/ key.ctrl /\ key.code = "Char" /\ key.ch \in {"u", "d", "f", "b", "g"}
    \/ key.code \in {"PageUp", "PageDown"}

\* Typing counted as a content update only while the clipboard is empty.
needs_content_update_by_clipboard(new, key) ==
    \/ key.code \in {"Enter", "Delete", "Backspace"}
    \/ new.mode = "Insert" /\ key.code = "Char" /\ ~key.ctrl
           /\ new.clipboard = <<>>

needs_content_update(new, key) ==
    \/ key.code \in {"Enter", "Delete", "Backspace"}
    \/ new.mode = "Insert" /\ key.code = "Char" /\ ~key.ctrl

render_tier(old, new, key) ==
    IF needs_full_render(old, new, key) THEN "render_full"
    ELSE IF needs_content_update(new, key) THEN "render_pane_update"
    ELSE "render"

\* The rows of the screen (1-based, as in the escape sequences) that the
\* render_*_to_buffer methods clear and repaint.
request_height(s) ==
    IF HasResponse(s) THEN ReqHeight(s) ELSE s.terminal_height - 1

request_rows(s) == 1..request_height(s)

separator_rows(s) == IF HasResponse(s) THEN {request_height(s) + 1} ELSE {}

response_rows(s) ==
    IF HasResponse(s)
    THEN {request_height(s) + 1 + i + 1 : i \in 0..(RespHeight(s) - 1)}
    ELSE {}

status_rows(s) == {s.terminal_height}

\* render prints the cursor position only when the cursor of the pane with
\* focus is inside the pane.
cursor_in_view(s) ==
    IF s.current_pane = "Request"
    THEN LET b == s.buffer
             cursor_y == IF b.cursor_line >= b.scroll_offset
                         THEN b.cursor_line - b.scroll_offset ELSE 0
         IN cursor_y < request_height(s)
    ELSE IF HasResponse(s)
    THEN LET r == Unwrap(s.response_buffer)
             cursor_y == IF r.cursor_line >= r.scroll_offset
                         THEN r.cursor_line - r.scroll_offset ELSE 0
         IN cursor_y < RespHeight(s)
    ELSE FALSE

\* What render, render_pane_update and render_full do to the terminal:
\* the output collected in one buffer is printed, then stdout is flushed.
\* rows are the rows repainted, cursor tells whether the cursor is placed.
render(s) ==
    (IF cursor_in_view(s)
     THEN <<[op |-> "write", rows |-> {}, cursor |-> TRUE]>>
     ELSE <<>>)
        \o <<[op |-> "flush"]>>

\* render_pane_update repainting both panes and the separator.
render_pane_update_both(s) ==
    <<[op |-> "write",
       rows |-> request_rows(s) \cup separator_rows(s) \cup response_rows(s)
                    \cup status_rows(s),
       cursor |-> cursor_in_view(s)],
      [op |-> "flush"]>>

render_pane_update(s) ==
    <<[op |-> "write",
       rows |-> (IF s.current_pane = "Request" THEN request_rows(s)
                 ELSE response_rows(s)) \cup status_rows(s),
       cursor |-> cursor_in_view(s)],
      [op |-> "flush"]>>

render_full(s) ==
    <<[op |-> "write",
       rows |-> request_rows(s) \cup separator_rows(s) \cup response_rows(s)
                    \cup status_rows(s),
       cursor |-> cursor_in_view(s)],
      [op |-> "flush"]>>

\* Event::Key in event_loop, as the terminal sees it: what the handler
\* writes, then what the render of the chosen tier writes.
key_event_output(s, key, resp) ==
    LET after == handle_key_event(s, key, resp)
        tier == render_tier(s, after, key)
    IN [handler |-> after.written,
        tier |-> IF after.exit THEN "none" ELSE tier,
        render |-> CASE after.exit -> <<>>
                     [] tier = "render_full" -> render_full(after)
                     [] tier = "render_pane_update" -> render_pane_update(after)
                     [] OTHER -> render(after)]

---------------------------------------------------------------------------
(* The event loop: one event is read and its handler runs to completion.   *)

\* The variables hold the session s.
Holds(s) ==
    /\ mode = s.mode
    /\ buffer = s.buffer
    /\ response_buffer = s.response_buffer
    /\ current_pane = s.current_pane
    /\ verbose = s.verbose
    /\ terminal_height = s.terminal_height
    /\ status_message = s.status_message
    /\ command_buffer = s.command_buffer
    /\ clipboard = s.clipboard
    /\ visual_selection = s.visual_selection
    /\ pending_g = s.pending_g
    /\ pending_ctrl_w = s.pending_ctrl_w
    /\ last_response_status = s.last_response_status
    /\ pane_split_ratio = s.pane_split_ratio
    /\ session_headers = s.session_headers
    /\ dispatched = s.sent

\* The handler's assignments take effect; Ok(true) breaks the loop.
Install(s) ==
    /\ mode' = s.mode
    /\ buffer' = s.buffer
    /\ response_buffer' = s.response_buffer
    /\ current_pane' = s.current_pane
    /\ verbose' = s.verbose
    /\ terminal_height' = s.terminal_height
    /\ status_message' = s.status_message
    /\ command_buffer' = s.command_buffer
    /\ clipboard' = s.clipboard
    /\ visual_selection' = s.visual_selection
    /\ pending_g' = s.pending_g
    /\ pending_ctrl_w' = s.pending_ctrl_w
    /\ last_response_status' = s.last_response_status
    /\ pane_split_ratio' = s.pane_split_ratio
    /\ session_headers' = s.session_headers
    /\ dispatched' = s.sent
    /\ exited' = s.exit
    /\ UNCHANGED terminal

\* The process dies in the handler.
Abort ==
    /\ panicked' = TRUE
    /\ UNCHANGED <<mode, buffer, response_buffer, current_pane, verbose,
                   terminal_height, status_message, command_buffer, clipboard,
                   visual_selection, pending_g, pending_ctrl_w,
                   last_response_status, pane_split_ratio, session_headers,
                   dispatched, exited, wrapped, terminal>>

\* How a handler that returned s ends: a panic aborts; an unsigned
\* subtraction below zero aborts (overflow checks on) or wraps around.
Commit(s) ==
    CASE s.trap = "panic" -> Abort
      [] s.trap = "overflow" ->
           \/ Abort
           \/ Install(s) /\ wrapped' = TRUE /\ UNCHANGED panicked
      [] OTHER -> Install(s) /\ UNCHANGED <<panicked, wrapped>>

Running == ~exited /\ ~panicked

\* The bounds on the input.  Keys that add text stop at lim.text bytes,
\* keys that add a line at lim.lines lines, keys that scroll down at
\* MaxScroll, and Command mode only takes a key that keeps command_buffer
\* a prefix of one of cmds.  Keys that delete or move are never refused.
Limits(max_lines, max_text) == [lines |-> max_lines, text |-> max_text]

RECURSIVE TotalBytes(_)
TotalBytes(lines) ==
    IF lines = <<>> THEN 0 ELSE ByteLen(Head(lines)) + TotalBytes(Tail(lines))

ScrollAllowed ==
    IF current_pane = "Request" THEN buffer.scroll_offset < MaxScroll
    ELSE IF response_buffer = None THEN TRUE
    ELSE Unwrap(response_buffer).scroll_offset < MaxScroll

KeyAllowed(key, cmds, lim) ==
    LET ch == key.code = "Char"
        plain == ch /\ ~key.ctrl
    IN CASE mode = "Insert" /\ ch /\ key.ctrl /\ key.ch = "d" -> ScrollAllowed
         [] mode = "Insert" /\ key.code = "PageDown" -> ScrollAllowed
         [] mode = "Insert" /\ ch
                 /\ ~(key.ctrl /\ key.ch \in {"m", "j", "u", "k"}) ->
              /\ TotalBytes(buffer.lines) + Width(key.ch) <= lim.text
              /\ buffer.cursor_line >= Len(buffer.lines)
                     => Len(buffer.lines) < lim.lines
         [] mode = "Insert" /\ key.code = "Enter" -> Len(buffer.lines) < lim.lines
         [] mode = "Normal" /\ plain /\ key.ch \in {"p", "P"} ->
              /\ Len(buffer.lines) < lim.lines
              /\ TotalBytes(buffer.lines) + ByteLen(clipboard) <= lim.text
         [] mode = "Normal" /\ plain /\ key.ch = "J" ->
              TotalBytes(buffer.lines) < lim.text
         [] mode = "Normal" /\ ch /\ key.ctrl /\ key.ch \in {"d", "f"} ->
              ScrollAllowed
         [] mode = "Normal" /\ plain /\ key.ch = "D" /\ key.shift -> ScrollAllowed
         [] mode = "Normal" /\ key.code = "PageDown" -> ScrollAllowed
         [] mode = "Command" /\ ch ->
              \E cmd \in cmds : IsPrefix(Append(command_buffer, key.ch), cmd)
         [] OTHER -> TRUE

\* Event::Key(key); resp is what the dispatcher answers if the handler
\* sends a request.
KeyEvent(key, resp, cmds, lim) ==
    /\ Running
    /\ terminal.pc = "event_loop"
    /\ KeyAllowed(key, cmds, lim)
    /\ Commit(handle_key_event(Session, key, resp))

\* The dispatcher's answers: a response with a status line, header lines,
\* a body and (for a JSON body) its pretty-printed form, or an error.
Answer(body, json) ==
    [ok |-> TRUE, code |-> "200", reason |-> "OK",
     headers_text |-> <<" ", " ", "h", ":", " ", "v", Newline>>,
     body |-> body, json |-> json, message |-> <<>>]

Failure ==
    [ok |-> FALSE, code |-> "", reason |-> "", headers_text |-> <<>>,
     body |-> <<>>,
     json |-> None, message |-> <<"t", "i", "m", "e", "o", "u", "t">>]

\* A key event by the mode whose handler takes it.
InsertKey(key, resp, lim) == mode = "Insert" /\ KeyEvent(key, resp, {}, lim)

NormalKey(key, lim) == mode = "Normal" /\ KeyEvent(key, Failure, {}, lim)

VisualKey(key) ==
    mode \in {"Visual", "VisualLine"}
        /\ KeyEvent(key, Failure, {}, Limits(0, 0))

CommandKey(key, resp, cmds) ==
    mode = "Command" /\ KeyEvent(key, resp, cmds, Limits(0, 0))

\* Event::Resize(width, height)
Resize(height) ==
    /\ Running
    /\ terminal.pc = "event_loop"
    /\ terminal_height' = height
    /\ UNCHANGED <<mode, buffer, response_buffer, current_pane, verbose,
                   status_message, command_buffer, clipboard, visual_selection,
                   pending_g, pending_ctrl_w, last_response_status,
                   pane_split_ratio, session_headers, dispatched, exited,
                   panicked, wrapped, terminal>>

\* The state after VimRepl::new on a terminal of the given height.
Constructed(height, verbose_flag) ==
    /\ Holds(VimRepl_new(height, verbose_flag))
    /\ exited = FALSE
    /\ panicked = FALSE
    /\ wrapped = FALSE

\* run before its first step, and run on entry of event_loop: raw mode is
\* enabled and the alternate screen entered.
BeforeRun ==
    [pc |-> "enable_raw_mode", raw_mode |-> FALSE, left_alternate |-> FALSE,
     disabled_raw |-> FALSE, loop_result |-> "none", result |-> "none"]

InEventLoop == [BeforeRun EXCEPT !.pc = "event_loop", !.raw_mode = TRUE]

\* The session on entry of event_loop.
Start(height, verbose_flag) ==
    /\ Constructed(height, verbose_flag)
    /\ terminal = InEventLoop

---------------------------------------------------------------------------
(* Editing the request: every key of Insert mode and the editing, motion   *)
(* and scrolling keys of Normal mode, on a terminal whose request pane     *)
(* shows two or three lines.                                               *)

EditHeights == {7, 8}

EditInsertKeys ==
    {Ch("a"), Ch(Wide), Special("Enter"), Special("Backspace"),
     Special("Delete"), Special("Esc"), Special("Up"), Special("Down"),
     Special("Left"), Special("Right"), Special("PageUp"),
     Special("PageDown"), Ctrl("u"), Ctrl("d")}

EditNormalKeys ==
    {Ch("i"), Ch("A"), Ch("I"), Ch("h"), Ch("j"), Ch("k"), Ch("l"), Ch("J"),
     Ch("x"), Ch("G"), Ch("g"), Ch("w"), Ch("b"), Ch("0"), Ch("$"), Ch("U"),
     Shift("D"), Ctrl("u"), Ctrl("d"), Ctrl("f"), Ctrl("b"),
     Special("PageUp"), Special("PageDown"), Special("Delete"),
     Special("Esc")}

Init == \E height \in EditHeights : Start(height, FALSE)

EditLimits == Limits(EditMaxLines, EditMaxText)

Next ==
    \/ \E key \in EditInsertKeys : InsertKey(key, Failure, EditLimits)
    \/ \E key \in EditNormalKeys : NormalKey(key, EditLimits)
    \/ \E height \in EditHeights : Resize(height)

Spec == Init /\ [][Next]_vars

\* The cursor of a buffer lies on a line of it, at a column of that line.
CursorInBounds(b) ==
    /\ b.cursor_line < Len(b.lines)
    /\ b.cursor_col <= line_len_at(b, b.cursor_line)

\* C1: after any sequence of key events the cursor of the request buffer
\* is in bounds: 0 <= cursor_line < len(lines) and
\* 0 <= cursor_col <= len(lines[cursor_line]).  It is stated for the runs
\* in which no subtraction has wrapped around.
C1_CursorInBounds == ~wrapped => CursorInBounds(buffer)

\* The scroll offset of a buffer names one of its lines.
ScrollInRange(b) == b.scroll_offset < Len(b.lines)

\* C3: after any sequence of key events and terminal resize events the
\* scroll_offset of each buffer stays in [0, len(lines)).  It is stated for
\* the runs in which no subtraction has wrapped around.
C3_ScrollInRange ==
    ~wrapped =>
        /\ ScrollInRange(buffer)
        /\ response_buffer # None => ScrollInRange(Unwrap(response_buffer))

\* C4: every key event is total in every reachable state: no handler
\* panics on an index and no unsigned subtraction goes below zero.
C4_KeyEventsTotal == ~panicked /\ ~wrapped

\* The keys of a round trip, typed one after the other in Insert mode, and
\* the Backspaces that follow.
RoundTripKeys == {Ch("a"), Special("Enter")}

RECURSIVE TypeKeys(_, _)
TypeKeys(s, keys) ==
    IF keys = <<>> THEN s
    ELSE TypeKeys(handle_insert_mode(s, Head(keys), Failure), Tail(keys))

RECURSIVE PressBackspace(_, _)
PressBackspace(s, n) ==
    IF n = 0 THEN s
    ELSE PressBackspace(handle_insert_mode(s, Special("Backspace"), Failure),
                        n - 1)

RoundTrip(s, keys) ==
    LET after == PressBackspace(TypeKeys(s, keys), Len(keys))
    IN /\ after.trap = "ok"
       /\ after.buffer.lines = s.buffer.lines
       /\ after.buffer.cursor_line = s.buffer.cursor_line
       /\ after.buffer.cursor_col = s.buffer.cursor_col

\* C6: from any buffer state in Insert mode, typing n keys (printable
\* characters and Enter) and then pressing Backspace n times restores the
\* original lines and the original cursor position (n = 1 and n = 2).
C6_InsertBackspaceRoundTrip ==
    (mode = "Insert" /\ Running) =>
        \A k1, k2 \in RoundTripKeys :
            RoundTrip(Session, <<k1>>) /\ RoundTrip(Session, <<k1, k2>>)

---------------------------------------------------------------------------
(* Selecting: the request is typed, then Normal mode and the visual modes  *)
(* move the cursor, select, yank and delete.                               *)

SelectHeight == 7

SelectInsertKeys ==
    {Ch("a"), Special("Enter"), Special("Backspace"), Special("Delete"),
     Special("Esc")}

SelectNormalKeys ==
    {Ch("h"), Ch("j"), Ch("k"), Ch("l"), Ch("J"), Ch("x"), Ch("v"), Ch("V")}

SelectVisualKeys ==
    {Ch("h"), Ch("j"), Ch("k"), Ch("l"), Ch("y"), Ch("d"), Ch("v"), Ch("V"),
     Special("Esc")}

VisualInit == Start(SelectHeight, FALSE)

SelectLimits == Limits(SelectMaxLines, SelectMaxText)

VisualNext ==
    \/ \E key \in SelectInsertKeys : InsertKey(key, Failure, SelectLimits)
    \/ \E key \in SelectNormalKeys : NormalKey(key, SelectLimits)
    \/ \E key \in SelectVisualKeys : VisualKey(key)

VisualSpec == VisualInit /\ [][VisualNext]_vars

\* C2: the request buffer always holds at least one line: no sequence of
\* key events (Backspace and Delete line joins, J, x, d over a selection)
\* leaves lines empty, and neither would delete_line.
C2_AtLeastOneLine ==
    /\ Len(buffer.lines) >= 1
    /\ Len(delete_line(buffer).lines) >= 1

\* C2 is about the states in which lines have been removed down to one:
\* several lines were selected and the buffer is back to a single line.
C2_LinesRemoved ==
    /\ mode = "Normal"
    /\ Len(buffer.lines) = 1
    /\ \E i \in 1..Len(clipboard) : clipboard[i] = Newline

\* The session with the cursor of the request buffer put at a position.
CursorAt(s, line, col) ==
    [s EXCEPT !.buffer.cursor_line = line, !.buffer.cursor_col = col]

\* The selection the code holds when, on the buffer of s, the selection of
\* s is made the other way round: v or V is pressed with the cursor where
\* it is now, and the cursor is then moved to where the selection of s was
\* started.
ReverseSelection(s) ==
    LET sel == Unwrap(s.visual_selection)
        started == start_visual(
                       [s EXCEPT !.mode = "Normal", !.visual_selection = None],
                       s.mode = "VisualLine")
        moved == update_visual_selection(
                     CursorAt(started, sel.start_line, sel.start_col))
    IN Unwrap(moved.visual_selection)

Selecting ==
    /\ Running
    /\ mode \in {"Visual", "VisualLine"}
    /\ current_pane = "Request"
    /\ visual_selection # None

\* C7: selection normalisation is order-independent: starting the
\* selection at A and moving the cursor to B yields the same yanked text as
\* starting at B and moving to A, in Visual and in VisualLine mode.
C7_SelectionOrderIndependent ==
    Selecting =>
        LET forward == Unwrap(visual_selection)
            backward == ReverseSelection(Session)
        IN /\ get_selected_text_ok(Session, forward)
           /\ get_selected_text_ok(Session, backward)
           /\ get_selected_text(Session, forward)
                  = get_selected_text(Session, backward)

\* The lines of the buffer without the lines first..last (0-based).
WithoutLines(lines, first, last) ==
    SubSeq(lines, 1, first) \o SubSeq(lines, last + 2, Len(lines))

\* C8: in VisualLine mode, selecting k full lines and pressing d in the
\* request pane removes those k lines from the buffer (one empty line is
\* kept when the whole buffer is deleted), puts their text joined by
\* newlines in the clipboard, places the cursor at the selection start and
\* returns to Normal mode.
C8_LinewiseDeleteRemovesLines ==
    (Selecting /\ mode = "VisualLine") =>
        LET sel == Unwrap(visual_selection)
            first == norm_start_line(sel)
            last == norm_end_line(sel)
            rest == WithoutLines(buffer.lines, first, last)
            after == handle_visual_mode(Session, Ch("d"))
        IN /\ after.trap = "ok"
           /\ after.mode = "Normal"
           /\ after.buffer.lines = IF rest = <<>> THEN << <<>> >> ELSE rest
           /\ after.clipboard = JoinLines(SubSeq(buffer.lines, first + 1, last + 1))
           /\ after.buffer.cursor_line = first
           /\ after.buffer.cursor_col = 0

---------------------------------------------------------------------------
(* Reading a response: a request line is typed and executed, and Normal    *)
(* mode moves through the response pane.                                   *)

ReadHeight == 7

\* A request is one line of at most ReadMaxText bytes.
ReadMaxText == 3

ReadLimits == Limits(1, ReadMaxText)

\* The answers: no body, a body of four lines, a JSON body, an error.
ReadAnswers ==
    {Answer(<<>>, None),
     Answer(<<"a", Newline, Newline, "b", "b", Newline, "c">>, None),
     Answer(<<"{", "}">>, Some(<<"{", "}">>)),
     Failure}

ReadInsertKeys == {Ch("a"), Ch(" "), Ctrl("j"), Special("Esc")}

ReadNormalKeys ==
    {Ctrl("w"), Ch("w"), Ch("h"), Ch("j"), Ch("k"), Ch("l"), Ch("b"),
     Ch("0"), Ch("$"), Ch("G"), Ch("g"), Ch("U"), Shift("D"),
     Ctrl("u"), Ctrl("d"), Ctrl("f"), Ctrl("b"),
     Special("PageUp"), Special("PageDown")}

ResponseInit == Start(ReadHeight, FALSE)

ResponseNext ==
    \/ \E key \in ReadInsertKeys, resp \in ReadAnswers :
           InsertKey(key, resp, ReadLimits)
    \/ \E key \in ReadNormalKeys : NormalKey(key, ReadLimits)

ResponseSpec == ResponseInit /\ [][ResponseNext]_vars

\* C5: every response view installed by a request completion has at least
\* one line and its cursor in bounds, for every response text including
\* an empty body, and every navigation key of the response pane keeps it so.
C5_ResponseViewShape ==
    response_buffer # None =>
        /\ Len(Unwrap(response_buffer).lines) >= 1
        /\ CursorInBounds(Unwrap(response_buffer))

---------------------------------------------------------------------------
(* Resizing the panes: a request is executed, and Ctrl+K, Ctrl+J and       *)
(* Ctrl+M move the boundary from either pane, on a terminal of 24 or of   *)
(* 49 rows that may be resized from one to the other.                      *)

DefaultHeight == 24

TallHeight == 49

PaneHeights == {DefaultHeight, TallHeight}

PaneAnswers == {Answer(<<"o", "k">>, None)}

PaneInsertKeys ==
    {Ch("a"), Ch(" "), Ctrl("j"), Ctrl("k"), Ctrl("m"), Special("Esc")}

PaneNormalKeys ==
    {Ch("i"), Ctrl("w"), Ch("w"), Ctrl("j"), Ctrl("k"), Ctrl("m")}

PaneInit == \E height \in PaneHeights : Start(height, FALSE)

PaneNext ==
    \/ \E key \in PaneInsertKeys, resp \in PaneAnswers :
           InsertKey(key, resp, ReadLimits)
    \/ \E key \in PaneNormalKeys : NormalKey(key, ReadLimits)
    \/ \E height \in PaneHeights : Resize(height)

PaneSpec == PaneInit /\ [][PaneNext]_vars

\* The pane keys act in Normal mode once a response is shown.
PaneKeysAct == Running /\ mode = "Normal" /\ response_buffer # None

\* C9: after any expand, shrink or maximize pane operation (Ctrl+K,
\* Ctrl+J, Ctrl+M in either pane) both panes are at least 3 lines high, for
\* every terminal height and split ratio reached by key and resize events.
C9_PanesAtLeastThreeLines ==
    PaneKeysAct =>
        \A c \in {"k", "j", "m"} :
            LET after == handle_normal_mode(Session, Ctrl(c))
            IN /\ ReqHeight(after) >= MinPaneLines
               /\ RespHeight(after) >= MinPaneLines

\* The height of the pane with focus.
FocusHeight(s) ==
    IF s.current_pane = "Request" THEN ReqHeight(s) ELSE RespHeight(s)

\* The keys that expand and shrink the pane with focus by one line.
ExpandKey(s) == IF s.current_pane = "Request" THEN Ctrl("k") ELSE Ctrl("j")

ShrinkKey(s) == IF s.current_pane = "Request" THEN Ctrl("j") ELSE Ctrl("k")

\* C10: maximize makes the pane with focus exactly total_content_height - 3
\* lines high, and each one-line expand (shrink) changes its height by
\* exactly one line as long as it is below total_content_height - 3
\* (above 3), never stopping one line short.
C10_PaneStepsAreExact ==
    PaneKeysAct =>
        LET s == Session
            most == total_content_height(terminal_height) - MinPaneLines
            now == FocusHeight(s)
        IN /\ FocusHeight(handle_normal_mode(s, Ctrl("m"))) = most
           /\ (MinPaneLines <= now /\ now < most) =>
                  FocusHeight(handle_normal_mode(s, ExpandKey(s))) = now + 1
           /\ (MinPaneLines < now /\ now <= most) =>
                  FocusHeight(handle_normal_mode(s, ShrinkKey(s))) = now - 1

---------------------------------------------------------------------------
(* Commands: a request line is typed, Normal mode switches panes, opens    *)
(* Command mode and Visual mode, and Command mode types and runs the       *)
(* commands, on a terminal of 8 or 24 rows.                                *)

SmallHeight == 8

CommandHeights == {SmallHeight, DefaultHeight}

\* The answers: the body "pong", a body of two lines, an error.
CommandAnswers ==
    {Answer(<<"p", "o", "n", "g">>, None),
     Answer(<<"a", Newline, "b">>, None),
     Failure}

QuitCommands == {<<"q">>, <<"q", "u", "i", "t">>}

QuitNowCommands == {<<"q", "!">>, <<"q", "u", "i", "t", "!">>}

ExecuteCommands == {<<"x">>, <<"e", "x", "e", "c", "u", "t", "e">>}

UnknownCommands == {<<"z">>, <<"x", "x">>}

\* The commands typed in Command mode.
Commands ==
    QuitCommands \cup QuitNowCommands \cup ExecuteCommands
        \cup UnknownCommands \cup {<<"c", "l", "e", "a", "r">>}

CommandChars == UNION {{cmd[i] : i \in 1..Len(cmd)} : cmd \in Commands}

CommandInsertKeys == {Ch("a"), Ch(" "), Ctrl("j"), Special("Esc")}

CommandNormalKeys == {Ch(":"), Ch("i"), Ctrl("w"), Ch("w"), Ch("v")}

CommandVisualKeys == {Ch("l"), Special("Esc")}

CommandInit == \E height \in CommandHeights : Start(height, FALSE)

CommandNext ==
    \/ \E key \in CommandInsertKeys, resp \in CommandAnswers :
           InsertKey(key, resp, ReadLimits)
    \/ \E key \in CommandNormalKeys : NormalKey(key, ReadLimits)
    \/ \E key \in CommandVisualKeys : VisualKey(key)
    \/ \E c \in CommandChars, resp \in CommandAnswers :
           CommandKey(Ch(c), resp, Commands)
    \/ \E code \in {"Enter", "Esc", "Backspace"}, resp \in CommandAnswers :
           CommandKey(Special(code), resp, Commands)
    \/ \E height \in CommandHeights : Resize(height)

CommandSpec == CommandInit /\ [][CommandNext]_vars

\* The bounds of the split ratio for a terminal height.
RatioInBounds(height, ratio) ==
    LET total == total_content_height(height)
    IN /\ ~RatioLess(ratio, Ratio(MinPaneLines, total))
       /\ ~RatioLess(Ratio(total - MinPaneLines, total), ratio)

\* C11: in every reachable state split_ratio lies in [min_ratio, max_ratio]
\* = [3 / total_content_height, (total_content_height - 3) /
\* total_content_height] of the current terminal height, also after the
\* commands q, x and clear and after a terminal resize.
C11_RatioWithinBounds == RatioInBounds(terminal_height, pane_split_ratio)

\* Enter in Command mode, with the command typed so far.
RunCommand(s, resp) == handle_command_mode(s, Special("Enter"), resp)

\* C13: the command q or quit closes the response pane when one is open
\* (a response view exists) and the session goes on with a full-height
\* request pane; it ends the session only when no response pane is open;
\* whichever pane has focus.
C13_QuitClosesResponseFirst ==
    (Running /\ mode = "Command" /\ command_buffer \in QuitCommands) =>
        LET after == RunCommand(Session, Failure)
        IN IF response_buffer # None
           THEN /\ ~after.exit
                /\ after.response_buffer = None
                /\ ReqHeight(after) = total_content_height(terminal_height)
           ELSE after.exit

\* The keys Esc, ':', 'q', '!', Enter.
QuitNowKeys ==
    <<Special("Esc"), Ch(":"), Ch("q"), Ch("!"), Special("Enter")>>

\* The session after the keys, one event after the other, as long as the
\* loop runs.
RECURSIVE PressKeys(_, _)
PressKeys(s, keys) ==
    IF keys = <<>> \/ s.exit \/ s.trap # "ok" THEN s
    ELSE PressKeys(handle_key_event(s, Head(keys), Failure), Tail(keys))

\* C14: q! and quit! end the event loop at once in every reachable state
\* (any focus, response pane open or not), so that from every reachable
\* state the keys Esc, ':', 'q', '!', Enter end the session.
C14_ForceQuitEndsSession ==
    Running =>
        /\ (mode = "Command" /\ command_buffer \in QuitNowCommands) =>
               RunCommand(Session, Failure).exit
        /\ LET after == PressKeys(Session, QuitNowKeys)
           IN after.exit /\ after.trap = "ok"

\* C14 at work: the session ended with focus in an open response pane,
\* which q does not do.
C14_QuitWithResponseFocused ==
    exited /\ current_pane = "Response" /\ response_buffer # None

\* The lines and the position of a response view.
ViewShows(view, lines) ==
    /\ view # None
    /\ Unwrap(view).lines = lines
    /\ Unwrap(view).cursor_line = 0
    /\ Unwrap(view).cursor_col = 0
    /\ Unwrap(view).scroll_offset = 0

\* The first buffer line has two whitespace-separated tokens or more.
WellFormed(b) ==
    b.lines # <<>> /\ Len(split_whitespace(b.lines[1])) >= 2

Typed(cmds) == Running /\ mode = "Command" /\ command_buffer \in cmds

\* C15: x or execute discards the existing response view and dispatches
\* the request parsed from the buffer; when the dispatcher succeeds with
\* status code c, reason r and a non-JSON body b (verbose off), the new
\* view's lines are the lines of b, last-status is "HTTP c r" and cursor
\* and scroll are 0 (body "pong" with 200 gives ["pong"], "HTTP 200 OK").
C15_ExecuteInstallsResponse ==
    (Typed(ExecuteCommands) /\ ~verbose) =>
        \A resp \in {r \in CommandAnswers : r.ok /\ r.json = None} :
            LET after == RunCommand(Session, resp)
            IN IF WellFormed(buffer)
               THEN /\ after.sent # None
                    /\ ViewShows(after.response_buffer, str_lines(resp.body))
                    /\ after.last_response_status =
                           Some(<<"HTTP ", resp.code, " ", resp.reason>>)
                    /\ resp.body = <<"p", "o", "n", "g">> =>
                           /\ Unwrap(after.response_buffer).lines
                                  = << <<"p", "o", "n", "g">> >>
                           /\ after.last_response_status
                                  = Some(<<"HTTP ", "200", " ", "OK">>)
               ELSE after.response_buffer = None /\ after.sent = None

\* C15 at work: a command has dispatched a request and a body of two
\* lines is shown.
C15_ExecutedFromCommandMode ==
    /\ dispatched # None
    /\ mode = "Normal"
    /\ ViewShows(response_buffer, << <<"a">>, <<"b">> >>)

\* The key that executes the request in the mode of s.
ExecuteKey(s) == IF s.mode = "Insert" THEN Ctrl("j") ELSE Special("Enter")

\* The states in which the key executes the request.
Executing ==
    \/ Typed(ExecuteCommands)
    \/ Running /\ mode = "Insert" /\ current_pane = "Request"
           /\ response_buffer = None

\* C16: when the dispatcher returns an error the error is not propagated:
\* a response view holding the error message is installed, last-status
\* becomes "Error", the handler returns without asking to exit and the
\* event loop reads the next event.
C16_DispatchErrorIsShown ==
    /\ (Executing /\ WellFormed(buffer)) =>
           LET after == handle_key_event(Session, ExecuteKey(Session), Failure)
           IN /\ after.sent # None
              /\ after.trap = "ok"
              /\ ~after.exit
              /\ after.last_response_status = Some(<<"Error">>)
              /\ ViewShows(after.response_buffer,
                           << <<"E", "r", "r", "o", "r", ":", " ">>
                                  \o Failure.message >>)
    /\ (dispatched # None /\ last_response_status = Some(<<"Error">>)) =>
           Running

\* C16 at work: a dispatch has failed and the loop is running.
C16_ErrorShownAndRunning ==
    /\ dispatched # None
    /\ last_response_status = Some(<<"Error">>)
    /\ response_buffer # None
    /\ Running

\* C17: when the first buffer line has fewer than two whitespace-separated
\* tokens (an empty buffer included), executing the request with x or with
\* the execute key never calls the dispatcher and leaves last-status and
\* the request buffer unchanged; after x the mode is Normal.
C17_MalformedRequestNotDispatched ==
    (Executing /\ ~WellFormed(buffer)) =>
        \A resp \in CommandAnswers :
            LET after == handle_key_event(Session, ExecuteKey(Session), resp)
            IN /\ after.sent = None
               /\ after.last_response_status = last_response_status
               /\ after.buffer = buffer
               /\ mode = "Command" => after.mode = "Normal"

\* C17 at work: the execute key has refused a line of one token.
C17_OneTokenRefused ==
    /\ status_message = <<"Invalid request format. Use: METHOD URL">>
    /\ dispatched = None
    /\ response_buffer = None
    /\ ~WellFormed(buffer)

\* What execute_request and execute_command report for the command typed.
Report(s) ==
    IF s.command_buffer \in ExecuteCommands
    THEN IF s.buffer.lines = <<>> \/ is_blank(s.buffer.lines[1])
         THEN <<"No request to execute">>
         ELSE <<"Invalid request format. Use: METHOD URL">>
    ELSE <<"Unknown command: ">> \o s.command_buffer

\* The text holds the report.
Contains(text, report) ==
    \E i \in 0..Len(text) : SubSeq(text, i + 1, i + Len(report)) = report

\* C18: after Enter in Command mode has run a malformed x or an unknown
\* command, the report is on the status line: when the handler has
\* returned, status_message still carries "Invalid request format...",
\* "No request to execute" or "Unknown command: ..." and the rendered
\* status line shows it.
C18_ReportStaysOnStatusLine ==
    (\/ Typed(ExecuteCommands) /\ ~WellFormed(buffer)
     \/ Typed(UnknownCommands)) =>
        LET after == RunCommand(Session, Failure)
            line == render_status_line(after)
        IN /\ after.status_message = Report(Session)
           /\ Contains(line.left \o line.right, Report(Session))

---------------------------------------------------------------------------
(* Parsing the request: a request of several lines is typed and executed   *)
(* with the execute key.                                                   *)

ParseMaxLines == 3

ParseMaxText == 4

ParseLimits == Limits(ParseMaxLines, ParseMaxText)

ParseAnswers == {Answer(<<"p", "o", "n", "g">>, None)}

ParseInsertKeys ==
    {Ch("a"), Ch(" "), Special("Enter"), Special("Backspace"), Ctrl("j"),
     Special("Esc")}

ParseNormalKeys == {Ch("i"), Ch("k"), Ch("x")}

ParseInit == Start(SmallHeight, FALSE)

ParseNext ==
    \/ \E key \in ParseInsertKeys, resp \in ParseAnswers :
           InsertKey(key, resp, ParseLimits)
    \/ \E key \in ParseNormalKeys : NormalKey(key, ParseLimits)

ParseSpec == ParseInit /\ [][ParseNext]_vars

\* The request as the buffer lines give it: the first two tokens of the
\* first line, and the lines after it, less a blank one right after it.
RequestOfBuffer(s) ==
    LET lines == s.buffer.lines
        tokens == split_whitespace(lines[1])
        rest == IF Len(lines) > 1 /\ is_blank(lines[2])
                THEN SubSeq(lines, 3, Len(lines))
                ELSE SubSeq(lines, 2, Len(lines))
    IN [method |-> to_uppercase(tokens[1]),
        url |-> Url_parse(tokens[2]),
        body |-> IF rest = <<>> THEN None ELSE Some(JoinLines(rest)),
        headers |-> s.session_headers]

\* C19: the method is the first token of the first buffer line in upper
\* case and the URL the second token; a blank buffer line right after the
\* first is skipped; the body is all remaining buffer lines joined with
\* newlines and is absent exactly when no lines remain; the session
\* headers are attached to the request.
C19_RequestParsedFromBuffer ==
    (Executing /\ WellFormed(buffer)) =>
        \A resp \in ParseAnswers :
            handle_key_event(Session, ExecuteKey(Session), resp).sent
                = Some(RequestOfBuffer(Session))

---------------------------------------------------------------------------
(* Session headers: Command mode sets and removes headers whose keys       *)
(* differ in letter case only, and executes the request.                   *)

HeadCommands ==
    {<<"h", "e", "a", "d", " ", "k", " ", "v">>,
     <<"h", "e", "a", "d", " ", "K", " ", "w">>}

UnheadCommands ==
    {<<"u", "n", "h", "e", "a", "d", " ", "k">>,
     <<"u", "n", "h", "e", "a", "d", " ", "K">>}

HeaderCommands == HeadCommands \cup UnheadCommands \cup {<<"x">>}

HeaderChars ==
    UNION {{cmd[i] : i \in 1..Len(cmd)} : cmd \in HeaderCommands}

HeaderInsertKeys == {Ch("a"), Ch(" "), Special("Esc")}

HeaderNormalKeys == {Ch(":"), Ch("i")}

HeaderInit == Start(SmallHeight, FALSE)

HeaderNext ==
    \/ \E key \in HeaderInsertKeys : InsertKey(key, Failure, ReadLimits)
    \/ \E key \in HeaderNormalKeys : NormalKey(key, ReadLimits)
    \/ \E c \in HeaderChars, resp \in ParseAnswers :
           CommandKey(Ch(c), resp, HeaderCommands)
    \/ \E code \in {"Enter", "Esc", "Backspace"}, resp \in ParseAnswers :
           CommandKey(Special(code), resp, HeaderCommands)

HeaderSpec == HeaderInit /\ [][HeaderNext]_vars

\* The entries of the headers whose key is key up to letter case.
EntriesFor(headers, key) ==
    {e \in headers : to_uppercase(e[1]) = to_uppercase(key)}

\* C20: session header keys are case-insensitive: head K v1 followed by
\* head K' v2, K' differing from K in letter case only, leaves a single
\* header with value v2, and unhead K' removes a header set as K; a header
\* set with head stays attached to every later x until it is removed.
C20_HeaderKeysIgnoreCase ==
    /\ Typed(HeadCommands) =>
           LET parts == splitn(command_buffer, 3)
               after == RunCommand(Session, Failure)
               found == EntriesFor(after.session_headers, parts[2])
           IN Cardinality(found) = 1 /\ \A e \in found : e[2] = parts[3]
    /\ Typed(UnheadCommands) =>
           LET key == splitn(command_buffer, 2)[2]
               after == RunCommand(Session, Failure)
           IN EntriesFor(after.session_headers, key) = {}
    /\ (Typed({<<"x">>}) /\ WellFormed(buffer)) =>
           \A resp \in ParseAnswers :
               LET after == RunCommand(Session, resp)
               IN /\ after.sent # None
                  /\ Unwrap(after.sent).headers = session_headers
                  /\ after.session_headers = session_headers

---------------------------------------------------------------------------
(* Modes: every mode is entered and left, in either pane, with and without *)
(* a response, and with text on the clipboard; the request is one line.    *)

ModeAnswers == {Answer(<<"a", Newline, "b">>, None)}

ModeCommands == {<<"q">>, <<"x">>, <<"c", "l", "e", "a", "r">>}

ModeChars == UNION {{cmd[i] : i \in 1..Len(cmd)} : cmd \in ModeCommands}

ModeInsertKeys == {Ch("a"), Ch(" "), Ctrl("j"), Special("Esc")}

\* The keys the response pane refuses: they edit the request pane only.
ReadOnlyKeys ==
    {Ch("i"), Ch("I"), Ch("A"), Ch("x"), Special("Delete"), Ch("D"),
     Shift("D"), Ch("J"), Ch("p"), Ch("P")}

ModeNormalKeys ==
    {Ch(":"), Ch("i"), Ch("v"), Ch("V"), Ch("y"), Ctrl("w"), Ch("w"),
     Special("Esc")}

ModeVisualKeys ==
    {Ch("v"), Ch("V"), Ch("y"), Ch("d"), Ch("j"), Special("Esc")}

ModeCommandKeys ==
    {Ch(c) : c \in ModeChars}
        \cup {Special("Enter"), Special("Esc"), Special("Backspace")}

\* Every key the handlers tell apart in some mode.
ModeKeys ==
    ModeInsertKeys \cup ModeNormalKeys \cup ModeVisualKeys
        \cup ModeCommandKeys \cup ReadOnlyKeys
        \cup {Ch("x"), Ch("j"), Ch("k"), Ch("h"), Ch("g"), Ch("G"), Ch("Y"), Ch("U"),
              Ch("b"), Ch("0"), Ch("$"), Ctrl("u"), Ctrl("d"), Ctrl("k"),
              Ctrl("m"), Special("Up"), Special("Down"), Special("PageUp"),
              Special("PageDown")}

ModeInit == Start(SmallHeight, FALSE)

ModeNext ==
    \/ \E key \in ModeInsertKeys, resp \in ModeAnswers :
           InsertKey(key, resp, ReadLimits)
    \/ \E key \in ModeNormalKeys : NormalKey(key, ReadLimits)
    \/ \E key \in ModeVisualKeys : VisualKey(key)
    \/ \E key \in ModeCommandKeys, resp \in ModeAnswers :
           CommandKey(key, resp, ModeCommands)

ModeSpec == ModeInit /\ [][ModeNext]_vars

\* The commands that replace or discard the response.
ReplacingCommands ==
    QuitCommands \cup ExecuteCommands \cup {<<"c", "l", "e", "a", "r">>}

\* The lines of the response view of s, if it has one.
ResponseLines(s) ==
    IF s.response_buffer = None THEN None
    ELSE Some(Unwrap(s.response_buffer).lines)

\* C21: no key event changes the lines of a response view while it exists:
\* in the response pane i, I, A, x, Delete, D, J, p, P and the d of the
\* visual modes leave the response lines and the request buffer unchanged,
\* and the response only changes by being replaced or discarded through
\* the execution of a request, clear or q.
C21_ResponseIsReadOnly ==
    Running =>
        \A key \in ModeKeys, resp \in ModeAnswers :
            LET after == handle_key_event(Session, key, resp)
            IN /\ (response_buffer # None
                      /\ ResponseLines(after) # ResponseLines(Session)) =>
                      /\ mode = "Command"
                      /\ key = Special("Enter")
                      /\ command_buffer \in ReplacingCommands
               /\ (current_pane = "Response"
                      /\ \/ mode = "Normal" /\ key \in ReadOnlyKeys
                         \/ mode \in {"Visual", "VisualLine"} /\ key = Ch("d")) =>
                      /\ ResponseLines(after) = ResponseLines(Session)
                      /\ after.buffer = buffer

\* C21 at work: the response pane has focus in Normal mode with a line of
\* the response on the clipboard, which p would paste.
C21_ResponsePaneHoldsClipboard ==
    /\ Running
    /\ mode = "Normal"
    /\ current_pane = "Response"
    /\ response_buffer # None
    /\ clipboard = <<"b">>
    /\ buffer.lines = << <<"a", " ", "a">> >>

\* C22: Insert mode is entered from Normal mode only, by i, I or A and
\* only while the request pane has focus, so that in every reachable state
\* mode = Insert implies current_pane = Request.
C22_InsertOnlyInRequestPane ==
    /\ mode = "Insert" => current_pane = "Request"
    /\ (Running /\ mode # "Insert") =>
           \A key \in ModeKeys, resp \in ModeAnswers :
               handle_key_event(Session, key, resp).mode = "Insert" =>
                   /\ mode = "Normal"
                   /\ key \in {Ch("i"), Ch("I"), Ch("A")}
                   /\ current_pane = "Request"

\* C22 at work: Insert mode was entered again from Normal mode (text is
\* yanked in Normal and the visual modes only) while a response is open.
C22_InsertEnteredAgain ==
    /\ mode = "Insert"
    /\ clipboard # <<>>
    /\ response_buffer # None
    /\ status_message = <<"-- INSERT --">>

\* C23: Esc in Insert, Command, Visual or VisualLine mode makes the mode
\* Normal after that one key event, and Esc in Normal mode stays in Normal
\* mode: Normal is one key away from every state.
C23_EscLeadsToNormal ==
    Running =>
        LET after == handle_key_event(Session, Special("Esc"), Failure)
        IN after.mode = "Normal" /\ after.trap = "ok" /\ ~after.exit

\* C23 at work: Normal mode, which the session starting in Insert mode
\* reaches by Esc only, in the response pane with the status message
\* cleared, no selection and nothing yanked.
C23_NormalAfterEsc ==
    /\ mode = "Normal"
    /\ current_pane = "Response"
    /\ response_buffer # None
    /\ visual_selection = None
    /\ clipboard = <<>>
    /\ status_message = <<>>
    /\ ~pending_ctrl_w

InVisualMode == Running /\ mode \in {"Visual", "VisualLine"}

\* The line the cursor of the pane with focus is on.
CursorLineLen(s) ==
    LET cur == IF s.current_pane = "Request" THEN s.buffer
               ELSE Unwrap(s.response_buffer)
    IN line_len_at(cur, cur.cursor_line)

\* The selection of s is kept: it spans the same lines from the same start.
SelectionKept(s, after) ==
    /\ after.visual_selection # None
    /\ Unwrap(after.visual_selection).start_line
           = Unwrap(s.visual_selection).start_line
    /\ Unwrap(after.visual_selection).end_line
           = Unwrap(s.visual_selection).end_line

\* C24: in Visual or VisualLine mode v and V toggle between the two visual
\* modes: v leads to Visual and V to VisualLine, the mode stays within
\* {Visual, VisualLine} and the selection is kept; on entering VisualLine
\* the end column of the selection is the length of the cursor's line.
C24_VisualToggle ==
    InVisualMode =>
        LET afterv == handle_key_event(Session, Ch("v"), Failure)
            afterV == handle_key_event(Session, Ch("V"), Failure)
        IN /\ afterv.mode = "Visual"
           /\ SelectionKept(Session, afterv)
           /\ afterV.mode = "VisualLine"
           /\ SelectionKept(Session, afterV)
           /\ mode = "Visual" =>
                  Unwrap(afterV.visual_selection).end_col
                      = CursorLineLen(Session)

\* The keys that leave the visual modes.
VisualExitKeys == {Special("Esc"), Ch("v"), Ch("y"), Ch("d")}

\* C25: a visual selection exists exactly while the mode is Visual or
\* VisualLine: in every reachable state visual_selection is present if and
\* only if the mode is Visual or VisualLine, and Esc, v, y and d, which
\* leave those modes, discard it.
C25_SelectionOnlyInVisualModes ==
    /\ visual_selection # None <=> mode \in {"Visual", "VisualLine"}
    /\ InVisualMode =>
           \A key \in VisualExitKeys :
               LET after == handle_key_event(Session, key, Failure)
               IN after.trap = "ok" =>
                      /\ after.mode = "Normal"
                      /\ after.visual_selection = None

\* C25 at work: y has left a visual mode of the response pane with the
\* selected text on the clipboard, and no selection remains.
C25_SelectionDiscarded ==
    /\ mode = "Normal"
    /\ current_pane = "Response"
    /\ clipboard = <<"a", Newline, "b">>
    /\ visual_selection = None

\* C26: in Normal mode with a response pane present Ctrl+W followed by w
\* toggles current_pane between Request and Response and changes nothing
\* else: buffers, cursors, mode and split ratio stay as they are.
C26_WindowSwitchOnlyTogglesPane ==
    (Running /\ mode = "Normal" /\ response_buffer # None) =>
        LET after == PressKeys(Session, <<Ctrl("w"), Ch("w")>>)
        IN /\ after.trap = "ok" /\ ~after.exit
           /\ after.current_pane =
                  (IF current_pane = "Request" THEN "Response" ELSE "Request")
           /\ after.buffer = buffer
           /\ after.response_buffer = response_buffer
           /\ after.mode = mode
           /\ after.pane_split_ratio = pane_split_ratio
           /\ after.clipboard = clipboard
           /\ after.visual_selection = visual_selection
           /\ after.status_message = status_message
           /\ after.command_buffer = command_buffer
           /\ after.last_response_status = last_response_status

\* C26 at work: focus is back in the request pane after the cursor of the
\* response was moved, which takes focus in the response pane.
C26_FocusBackInRequestPane ==
    /\ Running
    /\ mode = "Normal"
    /\ current_pane = "Request"
    /\ response_buffer # None
    /\ Unwrap(response_buffer).cursor_line = 1
    /\ ~pending_ctrl_w

\* pane_split_ratio >= 1.0
Maximized(ratio) == ~RatioLess(ratio, <<1, 1>>)

\* C27: whenever a request completes, with a response or with a dispatch
\* error, while split_ratio >= 1.0, split_ratio is 0.5 afterwards; a
\* completion with split_ratio < 1.0 leaves the ratio unchanged.
C27_CompletionRestoresSplit ==
    (Executing /\ WellFormed(buffer)) =>
        \A resp \in CommandAnswers :
            LET after == handle_key_event(Session, ExecuteKey(Session), resp)
            IN /\ after.sent # None
               /\ after.response_buffer # None
               /\ after.pane_split_ratio =
                      (IF Maximized(pane_split_ratio) THEN <<1, 2>>
                       ELSE pane_split_ratio)

\* C27 at work: a request is about to be executed while the ratio is 1.0,
\* which q in the response pane has left behind.
C27_ExecutingWhileMaximized ==
    /\ Executing
    /\ WellFormed(buffer)
    /\ Maximized(pane_split_ratio)

\* One buffered write followed by one flush.
OneWriteOneFlush(output) ==
    /\ Len(output) = 2
    /\ output[1].op = "write"
    /\ output[2].op = "flush"

\* C28: the terminal is written only inside a render call, and a render
\* call is exactly one buffered write followed by one flush: no key handler
\* writes to the terminal between the read of an event and the render that
\* follows it.
C28_TerminalWrittenByRenderOnly ==
    Running =>
        \A key \in ModeKeys, resp \in ModeAnswers :
            LET out == key_event_output(Session, key, resp)
            IN /\ out.handler = <<>>
               /\ out.tier # "none" => OneWriteOneFlush(out.render)

\* A session that agrees with s on what the rendering decision may depend
\* on (mode, pane, the scroll offsets of both panes, the split ratio) and
\* is the initial session in everything else.
TierInputs(s) ==
    [VimRepl_new(SmallHeight, FALSE) EXCEPT
       !.mode = s.mode,
       !.current_pane = s.current_pane,
       !.buffer = [Buffer_new EXCEPT !.scroll_offset = s.buffer.scroll_offset],
       !.response_buffer =
           IF s.response_buffer = None THEN None
           ELSE Some([ResponseBuffer_new(<<>>) EXCEPT
                        !.scroll_offset = Unwrap(s.response_buffer).scroll_offset]),
       !.pane_split_ratio = s.pane_split_ratio]

\* C30: the render tier is a function of (old mode, new mode, old pane,
\* new pane, old and new scroll offsets of both panes, old and new split
\* ratio, key): two key events that agree on these select the same tier,
\* whatever the buffer content, clipboard, status message and pending
\* flags are.
C30_RenderTierDeterministic ==
    Running =>
        \A key \in ModeKeys, resp \in ModeAnswers :
            LET after == handle_key_event(Session, key, resp)
            IN render_tier(Session, after, key)
                   = render_tier(TierInputs(Session), TierInputs(after), key)

\* C30 at work: a character is typed in Insert mode, which updates the
\* pane only, with text in the buffer and on the clipboard and a response
\* open.
C30_TypingUpdatesPane ==
    /\ Running
    /\ mode = "Insert"
    /\ buffer.lines # << <<>> >>
    /\ clipboard # <<>>
    /\ response_buffer # None
    /\ render_tier(Session, handle_key_event(Session, Ch("a"), Failure),
                   Ch("a")) = "render_pane_update"

---------------------------------------------------------------------------
(* VimRepl::run: the terminal is set up, the event loop runs until a quit  *)
(* command or an error, and the terminal is restored.  Every step that     *)
(* ends in `?` either succeeds or makes run return its error.              *)

SessionUnchanged ==
    UNCHANGED <<mode, buffer, response_buffer, current_pane, verbose,
                terminal_height, status_message, command_buffer, clipboard,
                visual_selection, pending_g, pending_ctrl_w,
                last_response_status, pane_split_ratio, session_headers,
                dispatched, exited, panicked, wrapped>>

\* run returns err from the `?` of the step it stands at.
Return(result) == [terminal EXCEPT !.pc = "returned", !.result = result]

\* enable_raw_mode()?, then the three execute! of the setup.
SetupStep(ok) ==
    /\ terminal.pc \in
           {"enable_raw_mode", "EnterAlternateScreen", "Clear", "SetCursorStyle"}
    /\ terminal' =
           IF ~ok THEN Return("err")
           ELSE CASE terminal.pc = "enable_raw_mode" ->
                       [terminal EXCEPT !.pc = "EnterAlternateScreen",
                                        !.raw_mode = TRUE]
                  [] terminal.pc = "EnterAlternateScreen" ->
                       [terminal EXCEPT !.pc = "Clear"]
                  [] terminal.pc = "Clear" ->
                       [terminal EXCEPT !.pc = "SetCursorStyle"]
                  [] terminal.pc = "SetCursorStyle" ->
                       [terminal EXCEPT !.pc = "event_loop"]
    /\ SessionUnchanged

\* A handler returned Ok(true): the loop breaks and event_loop is Ok(()).
LoopEnds ==
    /\ terminal.pc = "event_loop"
    /\ exited /\ ~panicked
    /\ terminal' = [terminal EXCEPT !.pc = "restore_cursor",
                                    !.loop_result = "ok"]
    /\ SessionUnchanged

\* event::read()?, a render or a handler fails: event_loop is Err.
LoopFails ==
    /\ terminal.pc = "event_loop"
    /\ Running
    /\ terminal' = [terminal EXCEPT !.pc = "restore_cursor",
                                    !.loop_result = "err"]
    /\ SessionUnchanged

\* The clean up: SetCursorStyle::DefaultUserShape, LeaveAlternateScreen
\* and disable_raw_mode, each with `?`; then run returns the loop's result.
CleanupStep(ok) ==
    /\ terminal.pc \in {"restore_cursor", "LeaveAlternateScreen", "disable_raw_mode"}
    /\ terminal' =
           CASE terminal.pc = "restore_cursor" ->
                  IF ok THEN [terminal EXCEPT !.pc = "LeaveAlternateScreen"]
                  ELSE Return("err")
             [] terminal.pc = "LeaveAlternateScreen" ->
                  IF ok THEN [terminal EXCEPT !.pc = "disable_raw_mode",
                                              !.left_alternate = TRUE]
                  ELSE [Return("err") EXCEPT !.left_alternate = TRUE]
             [] terminal.pc = "disable_raw_mode" ->
                  [Return(IF ok THEN terminal.loop_result ELSE "err")
                     EXCEPT !.disabled_raw = TRUE]
    /\ SessionUnchanged

RunInsertKeys == {Ch("a"), Special("Esc")}

RunCommands == QuitCommands \cup QuitNowCommands

RunChars == UNION {{cmd[i] : i \in 1..Len(cmd)} : cmd \in RunCommands}

RunInit == Constructed(SmallHeight, FALSE) /\ terminal = BeforeRun

RunNext ==
    \/ \E ok \in BOOLEAN : SetupStep(ok)
    \/ \E key \in RunInsertKeys : InsertKey(key, Failure, ReadLimits)
    \/ NormalKey(Ch(":"), ReadLimits)
    \/ \E c \in RunChars : CommandKey(Ch(c), Failure, RunCommands)
    \/ \E code \in {"Enter", "Esc"} :
           CommandKey(Special(code), Failure, RunCommands)
    \/ LoopEnds
    \/ LoopFails
    \/ \E ok \in BOOLEAN : CleanupStep(ok)

RunSpec == RunInit /\ [][RunNext]_vars

\* C29: the cleanup of the terminal is attempted on every exit path of
\* run: whenever raw mode was enabled, then on a quit, a forced quit, an
\* error of the event loop or a failure of a later setup or teardown step,
\* leaving the alternate screen and disabling raw mode have both been
\* attempted when run returns.
C29_CleanupOnEveryExit ==
    (terminal.pc = "returned" /\ terminal.raw_mode) =>
        terminal.left_alternate /\ terminal.disabled_raw

---------------------------------------------------------------------------
(* The rendering decision, over the keys of ModeSpec and the scroll keys.  *)

TierKeys ==
    ModeKeys \cup {Ctrl("f"), Ctrl("b"), Ctrl("g"), Special("Left"),
                   Special("Right"), Ch("w")}

\* The conditions of a full redraw: the mode or the pane changed, the mode
\* after the key is Command, Visual or VisualLine, a scroll offset or the
\* split ratio changed, or the key is Ctrl+U/D/F/B, PageUp or PageDown.
FullRedrawConditions(old, new, key) ==
    \/ new.mode # old.mode
    \/ new.current_pane # old.current_pane
    \/ new.mode \in {"Command", "Visual", "VisualLine"}
    \/ new.buffer.scroll_offset # old.buffer.scroll_offset
    \/ response_scroll(new) # response_scroll(old)
    \/ new.pane_split_ratio # old.pane_split_ratio
    \/ key \in {Ctrl("u"), Ctrl("d"), Ctrl("f"), Ctrl("b"),
                Special("PageUp"), Special("PageDown")}

\* The key events whose handler returns without leaving the loop.
Rendered(after) == after.trap = "ok" /\ ~after.exit

\* C31: a key event is rendered with a full redraw if and only if the mode
\* changed, the pane changed, the mode after the key is Command, Visual or
\* VisualLine, a scroll offset of either pane changed, the split ratio
\* changed, or the key is Ctrl+U, Ctrl+D, Ctrl+F, Ctrl+B, PageUp or
\* PageDown; every resize is rendered with a full redraw.
C31_FullRedrawExactlyWhen ==
    Running =>
        \A key \in TierKeys, resp \in ModeAnswers :
            LET after == handle_key_event(Session, key, resp)
            IN Rendered(after) =>
                   (render_tier(Session, after, key) = "render_full"
                        <=> FullRedrawConditions(Session, after, key))

\* The keys that change content: Enter, Backspace, Delete, and a printable
\* character typed in Insert mode.
ContentKey(s, key) ==
    \/ key.code \in {"Enter", "Backspace", "Delete"}
    \/ s.mode = "Insert" /\ key.code = "Char" /\ ~key.ctrl

\* The rows written by an output, and the number of cursor sequences in it.
RowsWritten(out) ==
    UNION {out[i].rows : i \in {j \in DOMAIN out : out[j].op = "write"}}

CursorWrites(out) ==
    Cardinality({i \in DOMAIN out : out[i].op = "write" /\ out[i].cursor})

ActiveRows(s) ==
    IF s.current_pane = "Request" THEN request_rows(s) ELSE response_rows(s)

OtherRows(s) ==
    (IF s.current_pane = "Request" THEN response_rows(s) ELSE request_rows(s))
        \cup separator_rows(s)

---------------------------------------------------------------------------
(* The pending flags of the two-key commands of Normal mode.               *)

PendingKeys ==
    EditNormalKeys
        \cup {Ctrl("w"), Ctrl("g"), Ch("v"), Ch(":"), Ch("y"), Ch("p"),
              Shift("W"), Special("Up"), Special("Enter")}

\* One key event and two key events, as long as the loop runs.
Press(s, key) == PressKeys(s, <<key>>)

\* g pressed twice with the pending flag clear moves the cursor of the
\* request buffer to (0,0) and the scroll offset to 0, and G afterwards
\* moves the cursor to the last line and its last column.
StartThenEnd(s) ==
    LET top == PressKeys(s, <<Ch("g"), Ch("g")>>)
        bottom == Press(top, Ch("G"))
    IN /\ top.buffer.cursor_line = 0
       /\ top.buffer.cursor_col = 0
       /\ top.buffer.scroll_offset = 0
       /\ ~top.pending_g
       /\ bottom.buffer.cursor_line = Len(bottom.buffer.lines) - 1
       /\ bottom.buffer.cursor_col
              = line_len_at(bottom.buffer, bottom.buffer.cursor_line)

\* After g and then the key the flag of g is clear, and a single g that
\* follows in Normal mode moves nothing.
PendingGCleared(s, key) ==
    LET after == PressKeys(s, <<Ch("g"), key>>)
    IN /\ ~after.pending_g
       /\ (after.trap = "ok" /\ after.mode = "Normal")
              => Press(after, Ch("g")).buffer = after.buffer

\* After Ctrl+W and then the key the flag of Ctrl+W is clear, and a
\* single w that follows in Normal mode does not switch the pane.
PendingCtrlWCleared(s, key) ==
    LET after == PressKeys(s, <<Ctrl("w"), key>>)
    IN /\ ~after.pending_ctrl_w
       /\ (after.trap = "ok" /\ after.mode = "Normal")
              => Press(after, Ch("w")).current_pane = after.current_pane

\* The states in which a two-key command can begin.
NoneIsPending ==
    Running /\ mode = "Normal" /\ ~pending_g /\ ~pending_ctrl_w

\* C33 as stated: the pending flags are one-shot.  g followed by g moves
\* the cursor to (0,0) with scroll_offset 0 and a following G moves it to
\* the last line, last column; after g followed by any key other than g,
\* or Ctrl+W followed by any key other than w, the pending flag is clear
\* and a later single g (or w) does not complete the sequence.
C33_PendingFlagsOneShot ==
    NoneIsPending =>
        /\ StartThenEnd(Session)
        /\ \A key \in PendingKeys \ {Ch("g")} : PendingGCleared(Session, key)
        /\ \A key \in PendingKeys \ {Ch("w")} :
               PendingCtrlWCleared(Session, key)

\* C33 as amended: the same, with Ctrl+W followed by any key other than w
\* and other than Ctrl+W itself.
C33_PendingFlagsOneShotButCtrlW ==
    NoneIsPending =>
        /\ StartThenEnd(Session)
        /\ \A key \in PendingKeys \ {Ch("g")} : PendingGCleared(Session, key)
        /\ \A key \in PendingKeys \ {Ch("w"), Ctrl("w")} :
               PendingCtrlWCleared(Session, key)

\* g was pressed in a request buffer scrolled down, with the cursor off
\* its first line.
C33_PendingGWhileScrolled ==
    /\ Running /\ mode = "Normal" /\ pending_g
    /\ buffer.scroll_offset > 0
    /\ buffer.cursor_line > 0

---------------------------------------------------------------------------
(* Vertical motion and the window of a pane.                               *)

\* The buffer of the pane with focus, as a set of at most one buffer, and
\* the height its motions are given.
FocusedBuffers(s) ==
    IF s.current_pane = "Request" THEN {s.buffer}
    ELSE IF HasResponse(s) THEN {Unwrap(s.response_buffer)} ELSE {}

VisibleHeight(s) ==
    IF s.current_pane = "Request" THEN ReqHeight(s) ELSE RespHeight(s)

InWindow(b, visible_height) ==
    /\ b.scroll_offset <= b.cursor_line
    /\ b.cursor_line < b.scroll_offset + visible_height

DownKeys == {Ch("j"), Special("Down")}

UpKeys == {Ch("k"), Special("Up")}

\* The keys that move the cursor one line up or down in the mode.
VerticalKeys(s) ==
    IF s.mode = "Insert" THEN {Special("Down"), Special("Up")}
    ELSE IF s.mode \in {"Normal", "Visual", "VisualLine"}
    THEN DownKeys \cup UpKeys
    ELSE {}

\* The key keeps the cursor of the pane with focus inside the window, and
\* moves the window only as far as the cursor passes its bottom or its top.
KeepsCursorVisible(s, key) ==
    LET after == Press(s, key)
        h == VisibleHeight(s)
    IN \A b \in FocusedBuffers(s), a \in FocusedBuffers(after) :
           InWindow(b, h) =>
               /\ InWindow(a, h)
               /\ a.scroll_offset =
                      IF key \in DownKeys
                             /\ a.cursor_line >= b.scroll_offset + h
                      THEN a.cursor_line - h + 1
                      ELSE IF key \in UpKeys
                                  /\ a.cursor_line < b.scroll_offset
                      THEN a.cursor_line
                      ELSE b.scroll_offset

\* The session as it is, and in Visual mode when it is in Normal mode.
AsIsAndSelecting(s) ==
    {s} \cup (IF s.mode = "Normal" THEN {Press(s, Ch("v"))} ELSE {})

\* C34: a cursor-down or cursor-up key (j, k, the arrows, in Normal,
\* Insert or Visual mode) keeps the cursor inside the window
\* [scroll_offset, scroll_offset + visible_height) when it was inside
\* before; scroll_offset becomes cursor_line - visible_height + 1 only when
\* the cursor passes the bottom, cursor_line only when it passes the top,
\* and is unchanged otherwise.
C34_VerticalMotionKeepsCursorVisible ==
    Running =>
        \A s \in AsIsAndSelecting(Session) :
            \A key \in VerticalKeys(s) : KeepsCursorVisible(s, key)

---------------------------------------------------------------------------
(* Scrolling by half a page and by a page, the cursor following.           *)

ScrollUpKeys == {Ctrl("u"), Ctrl("b")}

ScrollDownKeys == {Ctrl("d"), Ctrl("f")}

\* The lines asked for: half the pane for Ctrl+U and Ctrl+D, the pane for
\* Ctrl+F and Ctrl+B.
Requested(s, key) ==
    IF key \in {Ctrl("u"), Ctrl("d")} THEN VisibleHeight(s) \div 2
    ELSE VisibleHeight(s)

MaxScrollOf(b, visible_height) == Max(0, Len(b.lines) - visible_height)

\* The buffer b scrolled by the amount into a, the cursor following.
ScrolledBy(b, a, amount, visible_height) ==
    /\ a.lines = b.lines
    /\ a.scroll_offset = b.scroll_offset + amount
    /\ a.cursor_line = Max(0, Min(Len(b.lines) - 1, b.cursor_line + amount))
    /\ a.cursor_col = Min(b.cursor_col, line_len_at(a, a.cursor_line))
    /\ 0 <= a.scroll_offset
    /\ a.scroll_offset <= MaxScrollOf(a, visible_height)

ScrollsAsStated(s, key) ==
    LET after == Press(s, key)
        h == VisibleHeight(s)
    IN /\ after.trap = "ok"
       /\ \A b \in FocusedBuffers(s), a \in FocusedBuffers(after) :
              IF key \in ScrollUpKeys
              THEN ScrolledBy(b, a, 0 - Min(Requested(s, key), b.scroll_offset), h)
              ELSE ScrolledBy(b, a,
                              Min(Requested(s, key),
                                  MaxScrollOf(b, h) - b.scroll_offset), h)

\* C35: Ctrl+U and Ctrl+B decrease scroll_offset by
\* amount = min(requested, scroll_offset); Ctrl+D and Ctrl+F increase it by
\* amount = min(requested, max_scroll - scroll_offset), with
\* max_scroll = max(0, total_lines - visible_height); the cursor line moves
\* by the same amount in the same direction, clamped to the buffer, and the
\* column is clamped to the line, so that 0 <= scroll_offset <= max_scroll
\* afterwards.
C35_PageScrollFollowsCursor ==
    (Running /\ mode = "Normal") =>
        \A key \in ScrollUpKeys \cup ScrollDownKeys :
            ScrollsAsStated(Session, key)

---------------------------------------------------------------------------
(* The word motion w.                                                      *)

\* One step of w from the cursor of b to the cursor of a, as stated: to the
\* next boundary of character classes on the line; with none left, to the
\* first column of the next line that is not whitespace; on the last line
\* the cursor stays on the line, where it is or at its end.
WordStep(b, a) ==
    LET chars == At(b.lines, b.cursor_line)
        pos == b.cursor_col
        stop == IF pos < Len(chars)
                THEN SkipForward(chars, pos, CharClass(At(chars, pos)))
                ELSE pos
    IN /\ a.lines = b.lines
       /\ IF stop < Len(chars)
          THEN a.cursor_line = b.cursor_line /\ a.cursor_col = stop
          ELSE IF b.cursor_line < Len(b.lines) - 1
          THEN /\ a.cursor_line = b.cursor_line + 1
               /\ a.cursor_col =
                      SkipForward(At(b.lines, b.cursor_line + 1), 0, "space")
          ELSE /\ a.cursor_line = b.cursor_line
               /\ a.cursor_col \in {pos, Len(chars)}

\* C36: one step of w moves the cursor to the next boundary of character
\* classes on the current line; when no boundary remains on the line and a
\* next line exists the cursor goes to that next line only, on its first
\* column that is not whitespace; at the end of the buffer it moves
\* nothing; a step never advances more than one line.
C36_WordForwardOneStep ==
    (Running /\ mode = "Normal" /\ ~pending_ctrl_w) =>
        LET after == Press(Session, Ch("w"))
        IN /\ after.trap = "ok"
           /\ after.buffer.cursor_line <= buffer.cursor_line + 1
           /\ WordStep(buffer, after.buffer)

---------------------------------------------------------------------------
(* Enter in Insert mode.                                                   *)

\* The buffer a is b with the line of the cursor split at the cursor
\* column, the cursor on column 0 of the new line below.
SplitAtCursor(b, a) ==
    LET n == b.cursor_line + 1
    IN /\ Len(a.lines) = Len(b.lines) + 1
       /\ \A i \in 1..(n - 1) : a.lines[i] = b.lines[i]
       /\ a.lines[n] \o a.lines[n + 1] = b.lines[n]
       /\ ByteLen(a.lines[n]) = b.cursor_col
       /\ \A i \in (n + 1)..Len(b.lines) : a.lines[i + 1] = b.lines[i]
       /\ a.cursor_line = b.cursor_line + 1
       /\ a.cursor_col = 0

\* C37: Enter in Insert mode splits the line of the cursor at the cursor
\* column: the text before the cursor stays on the line, the text from the
\* cursor on becomes a new line directly below, the line count grows by
\* one and the cursor moves to column 0 of the new line.
C37_EnterSplitsLine ==
    (Running /\ mode = "Insert") =>
        LET after == Press(Session, Special("Enter"))
        IN after.trap = "ok" /\ SplitAtCursor(buffer, after.buffer)

---------------------------------------------------------------------------
(* What a key event changes and what its rendering repaints.               *)

EditingKeys ==
    TierKeys \cup {Ch("x"), Ch("D"), Shift("D"), Ch("J"), Ch("p"), Ch("P")}

\* The lines shown in the panes of a session.
RequestLines(s) == s.buffer.lines

ResponseShown(s) ==
    IF HasResponse(s) THEN Some(Unwrap(s.response_buffer).lines) ELSE None

\* C38: whenever a key event changes the lines of the buffer shown in a
\* pane, the rendering chosen for the event repaints that pane: the pane
\* update when the pane has focus, or the full redraw; this includes the
\* editing keys x, D, J, p and P of Normal mode.
C38_ChangedLinesAreRedrawn ==
    Running =>
        \A key \in EditingKeys, resp \in ModeAnswers :
            LET after == handle_key_event(Session, key, resp)
                tier == render_tier(Session, after, key)
            IN Rendered(after) =>
                   /\ RequestLines(after) # RequestLines(Session) =>
                          \/ tier = "render_full"
                          \/ /\ tier = "render_pane_update"
                             /\ after.current_pane = "Request"
                   /\ ResponseShown(after) # ResponseShown(Session) =>
                          \/ tier = "render_full"
                          \/ /\ tier = "render_pane_update"
                             /\ after.current_pane = "Response"

---------------------------------------------------------------------------
(* Focus and the presence of the response pane.                            *)

\* C39: focus is never on a pane that does not exist: in every reachable
\* state current_pane = Response implies that a response view is present,
\* also after Ctrl+W w without a response pane and after the command clear
\* run with focus on the response pane.
C39_FocusOnExistingPane ==
    current_pane = "Response" => response_buffer # None

---------------------------------------------------------------------------
(* The lines of the request buffer and the newline character.              *)

NewlineFree(lines) ==
    \A i \in 1..Len(lines) : \A j \in 1..Len(lines[i]) : lines[i][j] # Newline

PasteKeys == {Ch("p"), Ch("P")}

\* C40: no line of the request buffer ever contains a newline character:
\* after any sequence of key events, also a visual yank or delete over
\* several lines followed by p or P, every element of lines is free of
\* newlines.
C40_LinesHoldNoNewline ==
    /\ NewlineFree(buffer.lines)
    /\ (Running /\ mode = "Normal") =>
           \A key \in PasteKeys :
               LET after == Press(Session, key)
               IN after.trap = "ok" => NewlineFree(after.buffer.lines)

====
